---- MODULE Spec2Model ----
(***************************************************************************)
(* A model of the microagent runtime: the Tool invoker (tools.py), the     *)
(* conversation store (memory.py), the trace recorder (tracing.py) and     *)
(* the agent loop (agent.py).                                              *)
(*                                                                         *)
(* Conventions.  A Python Optional is a sequence of length 0 (None) or 1.  *)
(* A Python str is a sequence of string tokens, so that an f-string is a   *)
(* concatenation and "s in text" is token membership.  An exception is a   *)
(* record [kind, msg] with kind its class name and msg its str().          *)
(***************************************************************************)
EXTENDS Integers, Sequences, FiniteSets, TLC

\* ------------------------------------------------------------------ bounds

\* max_steps ranges over 0..MaxStepsBound
MaxStepsBound == 2
\* a behaviour starts at most MaxRuns runs
MaxRuns == 2
\* the gateway answers at most MaxCalls complete() calls in a behaviour
MaxCalls == 3
\* executions of one Tool's func in a behaviour of the tool-invoker specification
MaxInvocations == 2
\* the constructor's tools list holds at most MaxOffered items
MaxOffered == 3
\* a behaviour of the store specification makes at most MaxAdds add calls
MaxAdds == 3
\* max_messages ranges over None and 0..MaxKeep
MaxKeep == 2
\* the limit given to get_messages ranges over None and 0..MaxLimit
MaxLimit == 3
\* the caller changes the list it got from get_messages at most MaxEdits times
MaxEdits == 1
\* add is not called once MaxObjects objects have been allocated
MaxObjects == 6
\* the clock's readings range over 0..MaxTime
MaxTime == 3
\* a run of the tracer specification records at most MaxTraced steps
MaxTraced == 3

\* ---------------------------------------------------------------- optionals

None == <<>>
Some(x) == <<x>>
IsNone(o) == o = <<>>
Get(o) == o[1]

\* "tok in text" for a text of tokens
Contains(text, tok) == \E i \in 1..Len(text) : text[i] = tok

\* ------------------------------------------------------------ Python values

\* A runtime value: its class name, its str() and, for a container, its
\* elements (for a dict, its items as 2-element "item" values).
Val(t, repr, elems) == [t |-> t, repr |-> repr, elems |-> elems]
VInt == Val("int", "1", <<>>)
VStr == Val("str", "x", <<>>)
VBool == Val("bool", "True", <<>>)
VNone == Val("NoneType", "None", <<>>)
VListInt == Val("list", "[1, 1]", <<VInt, VInt>>)
VListMixed == Val("list", "[1, 'x']", <<VInt, VStr>>)
\* six elements, only the sixth of the wrong type
VListLate == Val("list", "[1, 1, 1, 1, 1, 'x']", <<VInt, VInt, VInt, VInt, VInt, VStr>>)

\* isinstance(value, cls) for a plain class: bool is a subclass of int
IsInstance(value, cls) ==
    \/ value.t = cls
    \/ value.t = "bool" /\ cls = "int"
    \/ cls = "object"

\* ------------------------------------------------------------- annotations

\* A parameter annotation: origin is get_origin() ("none" when it is None,
\* "empty" for inspect.Parameter.empty), base the class of a plain
\* annotation ("" when the annotation is not a class, such as typing.Any),
\* args is get_args().
\* repr is the text an f-string shows for the annotation.
Ann(origin, base, args, repr) ==
    [origin |-> origin, base |-> base, args |-> args, repr |-> repr]
AEmpty == Ann("empty", "", <<>>, "")
AInt == Ann("none", "int", <<>>, "<class 'int'>")
AStr == Ann("none", "str", <<>>, "<class 'str'>")
ANoneType == Ann("none", "NoneType", <<>>, "<class 'NoneType'>")
AAny == Ann("none", "", <<>>, "typing.Any")
AOptInt == Ann("Union", "", <<AInt, ANoneType>>, "typing.Optional[int]")
AListInt == Ann("list", "", <<AInt>>, "typing.List[int]")

\* list(value)[:5]
SampleSize == 5
FirstFew(s) == SubSeq(s, 1, IF Len(s) < SampleSize THEN Len(s) ELSE SampleSize)

\* Mutant: every value is accepted.
IsInstanceOfTypeAny(value, ann) == TRUE

\* _is_instance_of_type(value, expected_type)
RECURSIVE IsInstanceOfType(_, _)
IsInstanceOfType(value, ann) ==
    IF ann.origin = "none"
    THEN IF ann.base # "" THEN IsInstance(value, ann.base) ELSE TRUE
    ELSE IF ann.origin = "Union"
    THEN \/ value = VNone /\ \E i \in 1..Len(ann.args) : ann.args[i] = ANoneType
         \/ \E i \in 1..Len(ann.args) :
               /\ ann.args[i] # ANoneType
               /\ IsInstanceOfType(value, ann.args[i])
    ELSE IF ann.origin \in {"list", "tuple", "set"}
    THEN /\ IsInstance(value, ann.origin)
         /\ Len(ann.args) > 0 =>
               \A i \in 1..Len(FirstFew(value.elems)) :
                  IsInstanceOfType(FirstFew(value.elems)[i], ann.args[1])
    ELSE IF ann.origin = "dict"
    THEN /\ IsInstance(value, "dict")
         /\ Len(ann.args) = 2 =>
               \A i \in 1..Len(FirstFew(value.elems)) :
                  /\ IsInstanceOfType(FirstFew(value.elems)[i].elems[1], ann.args[1])
                  /\ IsInstanceOfType(FirstFew(value.elems)[i].elems[2], ann.args[2])
    ELSE TRUE

\* ------------------------------------------------------------ tool schema

\* type_map.get(python_type, "string")
TypeMap(base) ==
    CASE base = "str" -> "string"
      [] base = "int" -> "integer"
      [] base = "float" -> "number"
      [] base = "bool" -> "boolean"
      [] base = "list" -> "array"
      [] base = "dict" -> "object"
      [] OTHER -> "string"

\* [arg for arg in args if arg is not type(None)]
NonNone(args) == SelectSeq(args, LAMBDA a : a # ANoneType)

\* _get_json_schema_type(python_type), for an annotation that is not empty
RECURSIVE GetJsonSchemaType(_)
GetJsonSchemaType(ann) ==
    IF ann.origin = "none" THEN TypeMap(ann.base)
    ELSE IF ann.origin = "list" THEN "array"
    ELSE IF ann.origin = "dict" THEN "object"
    ELSE IF ann.origin \in {"tuple", "set"} THEN "array"
    ELSE IF ann.origin = "Union"
    THEN IF Len(NonNone(ann.args)) = 1
         THEN GetJsonSchemaType(NonNone(ann.args)[1])
         ELSE "string"
    ELSE "string"

\* param_info of the decorator for one parameter
ParamInfo(p) ==
    [name |-> p.name,
     type |-> (IF p.ann.origin = "empty" THEN "string" ELSE GetJsonSchemaType(p.ann)),
     description |-> ""]

\* the parameters the decorator lists: all but one named self
Listed(params) == SelectSeq(params, LAMBDA p : p.name # "self")

\* the names of a sequence of parameters
RECURSIVE Names(_)
Names(params) ==
    IF params = <<>> THEN <<>> ELSE <<Head(params).name>> \o Names(Tail(params))

\* the schema made by the decorator: "properties" in signature order and
\* "required"
Schema(properties, required) ==
    [type |-> "object", properties |-> properties, required |-> required]

\* Mutant: a parameter whose type admits None is not required.
ToolSchemaOptionalNotRequired(params) ==
    Schema([i \in 1..Len(Listed(params)) |-> ParamInfo(Listed(params)[i])],
           Names(SelectSeq(Listed(params),
                           LAMBDA p : ~p.has_default /\ p.ann.origin # "Union")))

\* parameters of tool.decorator (tools.py lines 89-112)
ToolSchema(params) ==
    Schema([i \in 1..Len(Listed(params)) |-> ParamInfo(Listed(params)[i])],
           Names(SelectSeq(Listed(params), LAMBDA p : ~p.has_default)))

\* ------------------------------------------------------------------- Tool

\* A Tool (tools.py, class Tool): its name, the signature of func as a
\* sequence of parameters [name, ann, has_default], and what func does when
\* it is executed: it raises the exception `raises` (Some) or returns
\* `returns`.
Param(name, ann, has_default) ==
    [name |-> name, ann |-> ann, has_default |-> has_default]
MkTool(name, params, raises, returns) ==
    [name |-> name, params |-> params, raises |-> raises, returns |-> returns]
Exc(kind, msg) == [kind |-> kind, msg |-> msg]
NoExc == Exc("", <<>>)

\* def add(a: int, b: int = 0) -> int
AddTool == MkTool("add", <<Param("a", AInt, FALSE), Param("b", AInt, TRUE)>>,
                  None, VInt)
\* def boom(x: str): raise ValueError("bad input")
BoomTool == MkTool("boom", <<Param("x", AStr, FALSE)>>,
                   Some(Exc("ValueError", <<"bad input">>)), VNone)
\* def pick(items: List[int], limit: Optional[int] = None, tag=..., extra: Any = ...)
PickTool == MkTool("pick", <<Param("items", AListInt, FALSE),
                             Param("limit", AOptInt, TRUE),
                             Param("tag", AEmpty, TRUE),
                             Param("extra", AAny, TRUE)>>,
                   None, VStr)

\* keyword arguments: a sequence of [k, v] with distinct keys
KV(k, v) == [k |-> k, v |-> v]
HasKey(kwargs, k) == \E i \in 1..Len(kwargs) : kwargs[i].k = k
ValueOf(kwargs, k) == kwargs[CHOOSE i \in 1..Len(kwargs) : kwargs[i].k = k].v
HasParam(params, k) == \E i \in 1..Len(params) : params[i].name = k

\* the first required parameter that kwargs does not give (0: none)
FirstMissing(params, kwargs) ==
    LET Missing(i) == ~params[i].has_default /\ ~HasKey(kwargs, params[i].name)
    IN  IF \E i \in 1..Len(params) : Missing(i)
        THEN CHOOSE i \in 1..Len(params) :
                Missing(i) /\ \A j \in 1..(i - 1) : ~Missing(j)
        ELSE 0

\* the first key of kwargs that is no parameter (0: none)
FirstExtra(params, kwargs) ==
    LET Extra(i) == ~HasParam(params, kwargs[i].k)
    IN  IF \E i \in 1..Len(kwargs) : Extra(i)
        THEN CHOOSE i \in 1..Len(kwargs) :
                Extra(i) /\ \A j \in 1..(i - 1) : ~Extra(j)
        ELSE 0

\* bound.arguments of sig.bind(**kwargs): the parameters given, in
\* signature order (defaults are not applied)
RECURSIVE BoundArguments(_, _)
BoundArguments(params, kwargs) ==
    IF params = <<>> THEN <<>>
    ELSE (IF HasKey(kwargs, Head(params).name)
          THEN <<KV(Head(params).name, ValueOf(kwargs, Head(params).name))>>
          ELSE <<>>) \o BoundArguments(Tail(params), kwargs)

\* Mutant: bind_partial, which does not report a missing required argument.
SigBindPartial(params, kwargs) ==
    IF FirstExtra(params, kwargs) # 0
    THEN [ok |-> FALSE, arguments |-> <<>>,
          msg |-> <<"got an unexpected keyword argument '",
                    kwargs[FirstExtra(params, kwargs)].k, "'">>]
    ELSE [ok |-> TRUE, msg |-> <<>>,
          arguments |-> BoundArguments(params, kwargs)]

\* sig.bind(**kwargs): TypeError (ok = FALSE, msg its text) for a missing
\* required parameter, else for a key that is no parameter
SigBind(params, kwargs) ==
    IF FirstMissing(params, kwargs) # 0
    THEN [ok |-> FALSE, arguments |-> <<>>,
          msg |-> <<"missing a required argument: '",
                    params[FirstMissing(params, kwargs)].name, "'">>]
    ELSE IF FirstExtra(params, kwargs) # 0
    THEN [ok |-> FALSE, arguments |-> <<>>,
          msg |-> <<"got an unexpected keyword argument '",
                    kwargs[FirstExtra(params, kwargs)].k, "'">>]
    ELSE [ok |-> TRUE, msg |-> <<>>,
          arguments |-> BoundArguments(params, kwargs)]

AnnOf(params, k) == params[CHOOSE i \in 1..Len(params) : params[i].name = k].ann

\* the bound argument at position i fails the type check of Tool.__call__
Mismatch(params, arguments, i) ==
    /\ AnnOf(params, arguments[i].k) # AEmpty
    /\ arguments[i].v # VNone
    /\ ~IsInstanceOfType(arguments[i].v, AnnOf(params, arguments[i].k))

\* the first bound argument that fails the type check (0: none)
FirstMismatch(params, arguments) ==
    IF \E i \in 1..Len(arguments) : Mismatch(params, arguments, i)
    THEN CHOOSE i \in 1..Len(arguments) :
            /\ Mismatch(params, arguments, i)
            /\ \A j \in 1..(i - 1) : ~Mismatch(params, arguments, j)
    ELSE 0

\* the result of one Tool invocation: whether func was executed, whether the
\* invocation raised and what, and the value returned
Outcome(called, raised, err, value) ==
    [called |-> called, raised |-> raised, err |-> err, value |-> value]

\* Mutant: what func raises is passed on unwrapped.
CallFuncUnwrapped(tool) ==
    IF IsNone(tool.raises)
    THEN Outcome(TRUE, FALSE, NoExc, tool.returns)
    ELSE Outcome(TRUE, TRUE, Get(tool.raises), VNone)

\* the call of func and the wrapping of what it raises
CallFunc(tool) ==
    IF IsNone(tool.raises)
    THEN Outcome(TRUE, FALSE, NoExc, tool.returns)
    ELSE Outcome(TRUE, TRUE,
                 Exc("ToolExecutionError",
                     <<"Error executing tool '", tool.name, "': ",
                       Get(tool.raises).kind, ": ">> \o Get(tool.raises).msg),
                 VNone)

\* Mutant: func is executed before the arguments are type-checked.
ToolCallUnchecked(tool, kwargs) ==
    LET b == SigBind(tool.params, kwargs)
    IN  IF ~b.ok
        THEN Outcome(FALSE, TRUE,
                     Exc("InvalidToolArguments",
                         <<"Invalid arguments for tool '", tool.name, "': ">>
                            \o b.msg),
                     VNone)
        ELSE CallFunc(tool)

\* Tool.__call__(**kwargs)
ToolCall(tool, kwargs) ==
    LET b == SigBind(tool.params, kwargs)
        i == FirstMismatch(tool.params, b.arguments)
    IN  IF ~b.ok
        THEN Outcome(FALSE, TRUE,
                     Exc("InvalidToolArguments",
                         <<"Invalid arguments for tool '", tool.name, "': ">>
                            \o b.msg),
                     VNone)
        ELSE IF i # 0
        THEN Outcome(FALSE, TRUE,
                     Exc("InvalidToolArguments",
                         <<"Invalid type for argument '", b.arguments[i].k,
                           "' in tool '", tool.name, "': expected ",
                           AnnOf(tool.params, b.arguments[i].k).repr,
                           ", got ", b.arguments[i].v.t>>),
                     VNone)
        ELSE CallFunc(tool)

\* ------------------------------------------------------------------ store

\* Message (llm.py) as InMemoryMemory.add builds it
Msg(role, content, tool_calls, tool_call_id) ==
    [role |-> role, content |-> content, tool_calls |-> tool_calls,
     tool_call_id |-> tool_call_id]

\* Mutant: on overflow the newest messages are dropped.
EvictNewest(msgs, limit) ==
    SubSeq(msgs, 1, IF Len(msgs) > limit THEN limit ELSE Len(msgs))

\* while len(self._messages) > self.max_messages: self._messages.pop(0)
RECURSIVE Evict(_, _)
Evict(msgs, limit) ==
    IF Len(msgs) > limit THEN Evict(Tail(msgs), limit) ELSE msgs

\* Mutant: add puts the new message in front.
MemAddInFront(msgs, max_msgs, msg) == <<msg>> \o msgs

\* InMemoryMemory.add: self._messages afterwards (max_msgs is None or >= 0)
MemAdd(msgs, max_msgs, msg) ==
    IF IsNone(max_msgs) THEN Append(msgs, msg)
    ELSE Evict(Append(msgs, msg), Get(max_msgs))

\* Mutant: get_messages returns the newest message only.
GetMessagesNewestOnly(msgs, limit) ==
    IF msgs = <<>> THEN <<>> ELSE <<msgs[Len(msgs)]>>

\* InMemoryMemory.get_messages(limit): copies of self._messages[-limit:],
\* where [-0:] is the whole list
GetMessages(msgs, limit) ==
    IF IsNone(limit) \/ Get(limit) = 0 THEN msgs
    ELSE IF Get(limit) > 0
    THEN SubSeq(msgs, (IF Len(msgs) > Get(limit) THEN Len(msgs) - Get(limit) ELSE 0) + 1,
                Len(msgs))
    ELSE SubSeq(msgs, (IF Len(msgs) > -Get(limit) THEN -Get(limit) ELSE Len(msgs)) + 1,
                Len(msgs))

\* ----------------------------------------------------------------- tracer

\* the value of time.time(): the model keeps no clock
Now == "time"

\* RunTrace as Tracer.start_run creates it
NewRun(input) ==
    [input |-> input, end_time |-> None, output |-> None, error |-> None,
     steps |-> <<>>]

\* Mutant: a run in the slot is kept when a new run starts.
StartRunKeepsOld(run, on, input) ==
    IF ~on \/ ~IsNone(run) THEN run ELSE Some(NewRun(input))

\* Tracer.start_run: self.current_run afterwards
StartRun(run, on, input) == IF ~on THEN run ELSE Some(NewRun(input))

\* f"{type(error).__name__}: {error}"
ErrText(e) == <<e.kind, ": ">> \o e.msg

\* Mutant: an error is recorded as the output too.
EndRunErrorAsOutput(run, on, output, error) ==
    IF ~on \/ IsNone(run) THEN run
    ELSE Some([Get(run) EXCEPT
                 !.end_time = Some(Now),
                 !.output = IF IsNone(error) THEN output ELSE Some(ErrText(Get(error))),
                 !.error = IF IsNone(error) THEN @ ELSE Some(ErrText(Get(error)))])

\* Mutant: the trace keeps the error object and no end time.
EndRunKeepsObject(run, on, output, error) ==
    IF ~on \/ IsNone(run) THEN run
    ELSE Some([Get(run) EXCEPT !.output = output, !.error = error])

\* Tracer.end_run(output, error): self.current_run afterwards
EndRun(run, on, output, error) ==
    IF ~on \/ IsNone(run) THEN run
    ELSE Some([Get(run) EXCEPT
                 !.end_time = Some(Now),
                 !.output = output,
                 !.error = IF IsNone(error) THEN @ ELSE Some(ErrText(Get(error)))])

\* TraceStep: step_type, data["tool_name"] ("" for a model call) and
\* data["error"] when present
Step(step_type, tool_name, error) ==
    [step_type |-> step_type, tool_name |-> tool_name, error |-> error]
\* Mutant: a model call is logged as a tool call.
LlmCallStepMistyped == Step("tool_call", "", None)
LlmCallStep == Step("llm_call", "", None)
ToolCallStep(name) == Step("tool_call", name, None)
ToolResultStep(name, error) ==
    Step("tool_result", name, IF IsNone(error) THEN None ELSE Some(ErrText(Get(error))))

\* Tracer._add_step for each step of `steps` in turn
AddSteps(run, on, steps) ==
    IF ~on \/ IsNone(run) THEN run
    ELSE Some([Get(run) EXCEPT !.steps = @ \o steps])

\* ------------------------------------------------------------ tool requests

\* The arguments field of a tool request is JSON text: malformed, an object
\* (value: its key/value pairs) or an array.
Json(form, value) == [form |-> form, value |-> value]
\* json.loads(text): JSONDecodeError (ok = FALSE), else the parsed value
JsonLoads(text) ==
    IF text.form = "malformed"
    THEN [ok |-> FALSE, mapping |-> FALSE, value |-> <<>>,
          msg |-> <<"Expecting value: line 1 column 1 (char 0)">>]
    ELSE [ok |-> TRUE, mapping |-> text.form = "object", value |-> text.value,
          msg |-> <<>>]

\* ToolCall (llm.py): id, function.name, function.arguments
Request(id, name, arguments) == [id |-> id, name |-> name, arguments |-> arguments]

\* the registry self.tools: a sequence of Tools with distinct names
Registered(registry, name) == \E i \in 1..Len(registry) : registry[i].name = name
Lookup(registry, name) ==
    registry[CHOOSE i \in 1..Len(registry) : registry[i].name = name]

\* what _execute_tool did: the trace steps it logged, the name of the Tool
\* whose func it executed ("" if none), whether it raised and what, and the
\* text it returned
Exec(steps, called, raised, err, text) ==
    [steps |-> steps, called |-> called, raised |-> raised, err |-> err,
     text |-> text]

\* tool(**arguments) at agent.py line 121: a TypeError at the call site when
\* the parsed arguments are no mapping, else Tool.__call__
Apply(tool, parsed) ==
    IF parsed.mapping THEN ToolCall(tool, parsed.value)
    ELSE Outcome(FALSE, TRUE,
                 Exc("TypeError",
                     <<"Tool(name='", tool.name,
                       "', ...) argument after ** must be a mapping, not ", "list">>),
                 VNone)

\* Mutant: a failed tool call is fatal in non-strict mode too.
ToolFailureFatal(isStrict, name, ran, err) ==
    LET e1 == Exc("ToolExecutionError",
                  <<"Error executing tool '", name, "': ">> \o err.msg)
        e2 == Exc("ToolExecutionError", <<"Tool execution failed: ">> \o e1.msg)
    IN  Exec(<<ToolCallStep(name), ToolResultStep(name, Some(e1)),
               ToolResultStep(name, Some(e2))>>,
             ran, TRUE, e2, <<>>)

\* the handlers of _execute_tool for what tool(**arguments) raised: the inner
\* one wraps and logs it, then returns its text or, in strict mode, raises
\* into the outer one, which logs and wraps it again
ToolFailure(isStrict, name, ran, err) ==
    LET e1 == Exc("ToolExecutionError",
                  <<"Error executing tool '", name, "': ">> \o err.msg)
        e2 == Exc("ToolExecutionError", <<"Tool execution failed: ">> \o e1.msg)
    IN  IF isStrict
        THEN Exec(<<ToolCallStep(name), ToolResultStep(name, Some(e1)),
                    ToolResultStep(name, Some(e2))>>,
                  ran, TRUE, e2, <<>>)
        ELSE Exec(<<ToolCallStep(name), ToolResultStep(name, Some(e1))>>,
                  ran, FALSE, NoExc, e1.msg)

\* Mutant: a request for a tool that is not registered is fatal in
\* non-strict mode too.
ToolNotFoundFatal(isStrict, name) ==
    LET text == <<"Tool '", name, "' not found">>
        e == Exc("ToolExecutionError", <<"Tool execution failed: ">> \o text)
    IN  Exec(<<ToolResultStep(name, Some(e))>>, "", TRUE, e, <<>>)

\* _execute_tool for a name that is not in self.tools (agent.py lines
\* 107-111): the text is returned or, in strict mode, raised into the outer
\* handler, which logs and wraps it
ToolNotFound(isStrict, name) ==
    LET text == <<"Tool '", name, "' not found">>
        e == Exc("ToolExecutionError", <<"Tool execution failed: ">> \o text)
    IN  IF isStrict
        THEN Exec(<<ToolResultStep(name, Some(e))>>, "", TRUE, e, <<>>)
        ELSE Exec(<<>>, "", FALSE, NoExc, text)

\* Agent._execute_tool(tool_call)
ExecuteTool(registry, isStrict, tc) ==
    IF ~Registered(registry, tc.name)
    THEN ToolNotFound(isStrict, tc.name)
    ELSE LET parsed == JsonLoads(tc.arguments)
         IN  IF ~parsed.ok
             THEN LET e == Exc("InvalidToolArguments",
                               <<"Invalid JSON in tool arguments: ">> \o parsed.msg)
                  IN  Exec(<<ToolResultStep("unknown", Some(e))>>, "", isStrict,
                           IF isStrict THEN e ELSE NoExc,
                           IF isStrict THEN <<>> ELSE e.msg)
             ELSE LET out == Apply(Lookup(registry, tc.name), parsed)
                      ran == IF out.called THEN tc.name ELSE ""
                  IN  IF ~out.raised
                      THEN Exec(<<ToolCallStep(tc.name),
                                  ToolResultStep(tc.name, None)>>,
                                ran, FALSE, NoExc, <<out.value.repr>>)
                      ELSE ToolFailure(isStrict, tc.name, ran, out.err)

\* ------------------------------------------------------------------- state

VARIABLES
    strict,        \* Agent.strict
    max_steps,     \* Agent.max_steps
    tools,         \* Agent.tools, the registry
    messages,      \* Agent.memory._messages
    max_messages,  \* Agent.memory.max_messages: None or Some(n), n >= 0
    enabled,       \* Agent.tracer.enabled
    current_run,   \* Agent.tracer.current_run: None or Some(RunTrace)
    pc,            \* where the caller's thread is: "idle", or in run at "loop" / "tools"
    step,          \* the loop variable of _run_loop
    pending,       \* the tool requests of the current response not yet processed
    result,        \* how the latest run ended: [kind, err, text], kind "none" while it runs
    gw_log,        \* the gateway's outcomes in the current run, one per complete() call
    issued,        \* the number of tool requests the gateway has issued (the source of ids)
    gw_calls,      \* the number of complete() calls the gateway has answered
    runs,          \* the number of runs started
    calls,         \* per Tool name, how often its func has been executed
    invoked,       \* the latest direct Tool invocation: [tool, kwargs, out, before]
    started,       \* whether run was called since construction or the last reset
    offered,       \* the items of the constructor's tools list processed so far
    added,         \* the message objects made by memory.add since construction or clear
    ids,           \* per stored message, the identity of its dict and of its tool_calls list
    view,          \* the list the latest get_messages call returned, in the caller's hands
    allocated,     \* the number of objects allocated (the source of identities)
    recorded,      \* what the run of a first agent did, kept for a second agent
    callers,       \* per caller thread, the locals of its run call on the shared agent
    decorated      \* the function given to the tool decorator and the schema made

vars == <<strict, max_steps, tools, messages, max_messages, enabled,
          current_run, pc, step, pending, result, gw_log, issued, gw_calls, runs,
          calls, invoked, started, offered, added, ids, view, allocated,
          recorded, callers, decorated>>

\* the variables that only the specifications of single components use
bench == <<offered, added, ids, view, allocated, recorded, callers, decorated>>

config == <<strict, max_steps, tools, max_messages, enabled>>

\* the tools given to the Agent constructor
Registry == <<AddTool, BoomTool>>
ToolNames == {"add", "boom", "pick"}

Result(kind, err, text) == [kind |-> kind, err |-> err, text |-> text]
NoResult == Result("none", NoExc, <<>>)
Returned(text) == Result("returned", NoExc, text)
Raised(e) == Result("raised", e, <<>>)

\* the threads that call run on one agent, and the locals of a thread that
\* is not inside run
Callers == {1, 2}
Idle == [pc |-> "idle", step |-> 0, pending |-> <<>>, result |-> NoResult]

\* nothing has been given to the tool decorator yet
NoFunction == [name |-> "", params |-> <<>>, schema |-> None]

NoInvocation == [tool |-> MkTool("", <<>>, None, VNone), kwargs |-> <<>>,
                 before |-> 0, out |-> Outcome(FALSE, FALSE, NoExc, VNone)]

\* Agent.__init__ with its defaults: InMemoryMemory() and tracing enabled
Init ==
    /\ strict \in BOOLEAN
    /\ max_steps \in 0..MaxStepsBound
    /\ enabled = TRUE
    /\ max_messages = None
    /\ tools = Registry
    /\ messages = <<>>
    /\ current_run = None
    /\ pc = "idle"
    /\ step = 0
    /\ pending = <<>>
    /\ result = NoResult
    /\ gw_log = <<>>
    /\ issued = 0
    /\ gw_calls = 0
    /\ runs = 0
    /\ calls = [n \in ToolNames |-> 0]
    /\ invoked = NoInvocation
    /\ started = FALSE
    /\ offered = <<>>
    /\ added = <<>>
    /\ ids = <<>>
    /\ view = None
    /\ allocated = 0
    /\ recorded = None
    /\ callers = [c \in Callers |-> Idle]
    /\ decorated = NoFunction

\* ------------------------------------------------------------------ gateway

\* the user messages given to run
Inputs == {"hi"}

\* what a tool request may look like: the Tool named and its JSON arguments
Template(name, arguments) == [name |-> name, arguments |-> arguments]
TGhost == Template("ghost", Json("object", <<>>))
TMalformed == Template("add", Json("malformed", <<>>))
TGood == Template("add", Json("object", <<KV("a", VInt)>>))
TMissing == Template("add", Json("object", <<KV("b", VInt)>>))
TExtra == Template("add", Json("object", <<KV("a", VInt), KV("z", VInt)>>))
TMismatch == Template("add", Json("object", <<KV("a", VStr)>>))
TBoom == Template("boom", Json("object", <<KV("x", VStr)>>))

\* the tool_calls lists of the gateway's responses, as templates: every
\* single request, and pairs that end in a good one
BatchShapes ==
    { <<TGhost>>, <<TMalformed>>, <<TGood>>, <<TMissing>>, <<TExtra>>,
      <<TMismatch>>, <<TBoom>>,
      <<TGood, TGood>>, <<TBoom, TGood>>, <<TGhost, TGood>> }

\* LLMResponse, or the failure of complete(): failed with the exception's text
Response(failed, text, content, tool_calls) ==
    [failed |-> failed, text |-> text, content |-> content, tool_calls |-> tool_calls]

\* the requests of a batch, with ids from issued + 1
Batch(shape) ==
    [i \in 1..Len(shape) |-> Request(issued + i, shape[i].name, shape[i].arguments)]

\* every outcome of one self.llm.complete(...) call: a failure, a response
\* without tool requests (content None, "" or a text), a response with tool
\* requests, and one with tool requests and a text
GatewayOutcomes ==
    {Response(TRUE, <<"connection refused">>, None, <<>>)}
    \cup {Response(FALSE, <<>>, c, <<>>) : c \in {None, Some(<<>>), Some(<<"final">>)}}
    \cup {Response(FALSE, <<>>, None, Batch(b)) : b \in BatchShapes}
    \cup {Response(FALSE, <<>>, Some(<<"thinking">>), Batch(<<TGood>>))}

\* --------------------------------------------------------------- agent loop

\* messages = self.memory.get_messages() (agent.py line 188): the history
\* given to log_llm_call and to llm.complete
History == GetMessages(messages, None)

\* Mutant: the loop runs once more than max_steps.
MoreStepsInclusive(i, n) == i <= n

\* for step in range(self.max_steps): the loop body runs for step i
MoreSteps(i, n) == i < n

\* Mutant: the handler raises whatever the mode.
LoopExceptAlwaysRaises(isStrict, text) ==
    Raised(Exc("LLMError", <<"Error in LLM communication: ">> \o text))

\* Mutant: the handler never raises.
LoopExceptNeverRaises(isStrict, text) ==
    Returned(<<"Error in LLM communication: ">> \o text)

\* the handler of _run_loop (agent.py lines 225-230) for an exception with
\* str() = text raised anywhere in the loop body: how _run_loop ends
LoopExcept(isStrict, text) ==
    LET error == Exc("LLMError", <<"Error in LLM communication: ">> \o text)
    IN  IF isStrict THEN Raised(error) ELSE Returned(error.msg)

\* the classes run re-raises unchanged
AgentErrors ==
    {"AgentError", "ToolExecutionError", "InvalidToolArguments",
     "MaxStepsExceeded", "LLMError"}

\* Mutant: the handler of run re-raises every exception as it is.
ReraiseUnwrapped(e) == e

\* the handler of run (agent.py lines 173-182): the exception the caller gets
Reraise(e) ==
    IF e.kind \in AgentErrors THEN e
    ELSE Exc("AgentError", <<"Agent failed: ">> \o e.msg)

\* Mutant: an empty text counts as a final answer.
TruthyWhenEmpty(content) == ~IsNone(content)

\* bool(response.get("content"))
Truthy(content) == ~IsNone(content) /\ Get(content) # <<>>

\* Mutant: ending a run fails when there is no trace to end.
FinishNeedsTrace(run, res) ==
    /\ result' = (IF IsNone(run)
                  THEN Raised(Exc("AgentError",
                                  <<"Agent failed: ",
                                    "'NoneType' object has no attribute 'end_time'">>))
                  ELSE IF res.kind = "raised" THEN Raised(Reraise(res.err))
                  ELSE res)
    /\ current_run' = (IF res.kind = "raised"
                       THEN EndRun(run, enabled, None, Some(res.err))
                       ELSE run)
    /\ pc' = "idle"
    /\ pending' = <<>>
    /\ UNCHANGED step

\* how _run_loop, and with it run, ends with `res` from the trace `run`:
\* an exception passes through the handler of run, which ends the trace
Finish(run, res) ==
    /\ result' = (IF res.kind = "raised" THEN Raised(Reraise(res.err)) ELSE res)
    /\ current_run' = (IF res.kind = "raised"
                       THEN EndRun(run, enabled, None, Some(res.err))
                       ELSE run)
    /\ pc' = "idle"
    /\ pending' = <<>>
    /\ UNCHANGED step

\* Agent.run(message) up to the first iteration of _run_loop
Run(message) ==
    LET m == Msg("user", Some(<<message>>), None, None)
    IN  /\ pc = "idle"
        /\ runs < MaxRuns
        /\ runs' = runs + 1
        /\ current_run' = StartRun(current_run, enabled, message)
        /\ messages' = MemAdd(messages, max_messages, m)
        /\ pc' = "loop"
        /\ step' = 0
        /\ pending' = <<>>
        /\ result' = NoResult
        /\ gw_log' = <<>>
        /\ started' = TRUE
        /\ UNCHANGED <<config, issued, gw_calls, calls, invoked, bench>>

\* one iteration of _run_loop up to its first tool request: the model call
\* is logged, the gateway answers r, and a response without tool requests
\* is handled
LLMCall(r) ==
    LET traced == AddSteps(current_run, enabled, <<LlmCallStep>>)
        m == Msg("assistant", r.content, None, None)
    IN  /\ pc = "loop"
        /\ MoreSteps(step, max_steps)
        /\ gw_calls < MaxCalls
        /\ gw_calls' = gw_calls + 1
        /\ gw_log' = Append(gw_log, r)
        /\ issued' = issued + Len(r.tool_calls)
        /\ IF r.failed
           THEN /\ Finish(traced, LoopExcept(strict, r.text))
                /\ UNCHANGED messages
           ELSE IF r.tool_calls # <<>>
           THEN /\ pending' = r.tool_calls
                /\ pc' = "tools"
                /\ current_run' = traced
                /\ UNCHANGED <<messages, step, result>>
           ELSE IF Truthy(r.content)
           THEN /\ messages' = MemAdd(messages, max_messages, m)
                /\ Finish(EndRun(traced, enabled, r.content, None),
                          Returned(Get(r.content)))
           ELSE /\ step' = step + 1
                /\ current_run' = traced
                /\ UNCHANGED <<messages, pc, pending, result>>
        /\ UNCHANGED <<config, runs, calls, invoked, started, bench>>

\* Mutant: the assistant message carries all the requests not yet processed.
ToolStepWholeBatch ==
    LET tc == Head(pending)
        m1 == Msg("assistant", None, Some(pending), None)
        ex == ExecuteTool(tools, strict, tc)
        m2 == Msg("tool", Some(ex.text), None, Some(tc.id))
        traced == AddSteps(current_run, enabled, ex.steps)
        stored == MemAdd(messages, max_messages, m1)
    IN  /\ pc = "tools"
        /\ calls' = (IF ex.called = "" THEN calls
                     ELSE [calls EXCEPT ![ex.called] = @ + 1])
        /\ IF ex.raised
           THEN /\ messages' = stored
                /\ Finish(traced, LoopExcept(strict, ex.err.msg))
           ELSE /\ messages' = MemAdd(stored, max_messages, m2)
                /\ current_run' = traced
                /\ pending' = Tail(pending)
                /\ pc' = (IF Tail(pending) = <<>> THEN "loop" ELSE "tools")
                /\ step' = (IF Tail(pending) = <<>> THEN step + 1 ELSE step)
                /\ UNCHANGED result
        /\ UNCHANGED <<config, gw_log, issued, gw_calls, runs, invoked, started, bench>>

\* the body of "for tool_call in response['tool_calls']" for the next
\* request, and the "continue" after the last one
ToolStep ==
    LET tc == Head(pending)
        m1 == Msg("assistant", None, Some(<<tc>>), None)
        ex == ExecuteTool(tools, strict, tc)
        m2 == Msg("tool", Some(ex.text), None, Some(tc.id))
        traced == AddSteps(current_run, enabled, ex.steps)
        stored == MemAdd(messages, max_messages, m1)
    IN  /\ pc = "tools"
        /\ calls' = (IF ex.called = "" THEN calls
                     ELSE [calls EXCEPT ![ex.called] = @ + 1])
        /\ IF ex.raised
           THEN /\ messages' = stored
                /\ Finish(traced, LoopExcept(strict, ex.err.msg))
           ELSE /\ messages' = MemAdd(stored, max_messages, m2)
                /\ current_run' = traced
                /\ pending' = Tail(pending)
                /\ pc' = (IF Tail(pending) = <<>> THEN "loop" ELSE "tools")
                /\ step' = (IF Tail(pending) = <<>> THEN step + 1 ELSE step)
                /\ UNCHANGED result
        /\ UNCHANGED <<config, gw_log, issued, gw_calls, runs, invoked, started, bench>>

\* the end of _run_loop when the loop is exhausted (agent.py lines 232-235)
StepLimit ==
    LET error == Exc("MaxStepsExceeded",
                     <<"Maximum number of steps (", ToString(max_steps), ") reached">>)
    IN  /\ pc = "loop"
        /\ ~MoreSteps(step, max_steps)
        /\ Finish(EndRun(current_run, enabled, None, Some(error)), Raised(error))
        /\ UNCHANGED <<config, messages, gw_log, issued, gw_calls, runs,
                       calls, invoked, started, bench>>

\* Mutant: reset empties the registry too.
ResetForgetsTools ==
    /\ pc = "idle"
    /\ messages' = <<>>
    /\ current_run' = None
    /\ started' = FALSE
    /\ tools' = <<>>
    /\ UNCHANGED <<strict, max_steps, max_messages, enabled, pc, step, pending,
                   result, gw_log, issued, gw_calls, runs, calls, invoked, bench>>

\* Agent.reset()
Reset ==
    /\ pc = "idle"
    /\ messages' = <<>>
    /\ current_run' = None
    /\ started' = FALSE
    /\ UNCHANGED <<config, pc, step, pending, result, gw_log, issued,
                   gw_calls, runs, calls, invoked, bench>>

Next ==
    \/ \E message \in Inputs : Run(message)
    \/ \E r \in GatewayOutcomes : LLMCall(r)
    \/ ToolStep
    \/ StepLimit
    \/ Reset

Spec == Init /\ [][Next]_vars

\* ----------------------------------------------------------------- explain

\* TraceStep.to_dict()
StepToDict(st) ==
    [step_type |-> st.step_type, timestamp |-> Now,
     data |-> [tool_name |-> st.tool_name, error |-> st.error]]

\* RunTrace.to_dict(): duration is None until the run has an end time
ToDict(run) ==
    [input |-> run.input, output |-> run.output, error |-> run.error,
     start_time |-> Now, end_time |-> run.end_time,
     duration |-> (IF IsNone(run.end_time) THEN None ELSE Some("elapsed")),
     steps |-> [i \in 1..Len(run.steps) |-> StepToDict(run.steps[i])]]

\* what explain returns: the marker, or the serialized trace
Explained(status, trace) == [status |-> status, trace |-> trace]
NoActiveRun == Explained("no_active_run", None)

\* Agent.explain() with self.tracer.current_run = run
Explain(run) ==
    IF IsNone(run) THEN NoActiveRun ELSE Explained("", Some(ToDict(Get(run))))

\* Agent.__init__ with tracing enabled or disabled
ExplainInit ==
    /\ strict \in BOOLEAN
    /\ max_steps \in 0..MaxStepsBound
    /\ enabled \in BOOLEAN
    /\ max_messages = None
    /\ tools = Registry
    /\ messages = <<>>
    /\ current_run = None
    /\ pc = "idle"
    /\ step = 0
    /\ pending = <<>>
    /\ result = NoResult
    /\ gw_log = <<>>
    /\ issued = 0
    /\ gw_calls = 0
    /\ runs = 0
    /\ calls = [n \in ToolNames |-> 0]
    /\ invoked = NoInvocation
    /\ started = FALSE
    /\ offered = <<>>
    /\ added = <<>>
    /\ ids = <<>>
    /\ view = None
    /\ allocated = 0
    /\ recorded = None
    /\ callers = [c \in Callers |-> Idle]
    /\ decorated = NoFunction

ExplainSpec == ExplainInit /\ [][Next]_vars

\* ------------------------------------------------------ one run to its end

\* Agent.__init__ with any max_steps, a negative one included
LiveInit ==
    /\ strict \in BOOLEAN
    /\ max_steps \in -1..MaxStepsBound
    /\ enabled = TRUE
    /\ max_messages = None
    /\ tools = Registry
    /\ messages = <<>>
    /\ current_run = None
    /\ pc = "idle"
    /\ step = 0
    /\ pending = <<>>
    /\ result = NoResult
    /\ gw_log = <<>>
    /\ issued = 0
    /\ gw_calls = 0
    /\ runs = 0
    /\ calls = [n \in ToolNames |-> 0]
    /\ invoked = NoInvocation
    /\ started = FALSE
    /\ offered = <<>>
    /\ added = <<>>
    /\ ids = <<>>
    /\ view = None
    /\ allocated = 0
    /\ recorded = None
    /\ callers = [c \in Callers |-> Idle]
    /\ decorated = NoFunction

\* the caller makes one run
LiveNext ==
    \/ \E message \in Inputs : runs = 0 /\ Run(message)
    \/ \E r \in GatewayOutcomes : LLMCall(r)
    \/ ToolStep
    \/ StepLimit

\* every llm.complete call and every tool call comes back, and the thread
\* that executes run goes on until run ends
Fairness ==
    /\ WF_vars(\E r \in GatewayOutcomes : LLMCall(r))
    /\ WF_vars(ToolStep)
    /\ WF_vars(StepLimit)

LiveSpec == LiveInit /\ [][LiveNext]_vars /\ Fairness

\* ------------------------------------------------- the tracer and its clock

\* RunTrace with its start_time, as Tracer.start_run creates it at reading t
TimedRun(input, t) ==
    [input |-> input, start_time |-> t, end_time |-> None, output |-> None,
     error |-> None, steps |-> <<>>]

\* the latest reading of time.time() that the tracer has taken
LastReading ==
    IF IsNone(current_run) THEN 0
    ELSE IF Get(current_run).steps = <<>> THEN Get(current_run).start_time
    ELSE Get(current_run).steps[Len(Get(current_run).steps)].timestamp

\* time.time(): the wall clock's readings do not decrease here, and two
\* calls within its resolution get the same reading
Readings == LastReading..MaxTime

\* Tracer.start_run(input_text) at reading t
TimedStartRun(t) ==
    /\ enabled
    /\ current_run' = Some(TimedRun("hi", t))
    /\ UNCHANGED <<config, messages, pc, step, pending, result, gw_log, issued,
                   gw_calls, runs, calls, invoked, started, bench>>

\* Tracer._add_step(step_type, data) at reading t
TimedAddStep(step_type, t) ==
    /\ enabled /\ ~IsNone(current_run)
    /\ Len(Get(current_run).steps) < MaxTraced
    /\ current_run' =
          Some([Get(current_run) EXCEPT
                  !.steps = Append(@, [step_type |-> step_type, timestamp |-> t])])
    /\ UNCHANGED <<config, messages, pc, step, pending, result, gw_log, issued,
                   gw_calls, runs, calls, invoked, started, bench>>

TimeNext ==
    \/ \E t \in Readings : TimedStartRun(t)
    \/ \E step_type \in {"llm_call", "tool_call", "tool_result"}, t \in Readings :
          TimedAddStep(step_type, t)

TimeSpec == Init /\ [][TimeNext]_vars

\* ------------------------------------------------ runs that differ in input

\* the caller gives "hi" to the first run and "again" to every later one
Turn(message) == message = (IF runs = 0 THEN "hi" ELSE "again")

SlotNext ==
    \/ \E message \in Inputs \cup {"again"} : Turn(message) /\ Run(message)
    \/ \E r \in GatewayOutcomes : LLMCall(r)
    \/ ToolStep
    \/ StepLimit
    \/ Reset

SlotSpec == Init /\ [][SlotNext]_vars

\* ------------------------------------------- agent with a bounded store

\* Agent.__init__ with memory = InMemoryMemory(max_messages)
BoundedInit ==
    /\ strict \in BOOLEAN
    /\ max_steps \in 0..MaxStepsBound
    /\ enabled = TRUE
    /\ max_messages \in {None} \cup {Some(n) : n \in 0..MaxKeep}
    /\ tools = Registry
    /\ messages = <<>>
    /\ current_run = None
    /\ pc = "idle"
    /\ step = 0
    /\ pending = <<>>
    /\ result = NoResult
    /\ gw_log = <<>>
    /\ issued = 0
    /\ gw_calls = 0
    /\ runs = 0
    /\ calls = [n \in ToolNames |-> 0]
    /\ invoked = NoInvocation
    /\ started = FALSE
    /\ offered = <<>>
    /\ added = <<>>
    /\ ids = <<>>
    /\ view = None
    /\ allocated = 0
    /\ recorded = None
    /\ callers = [c \in Callers |-> Idle]
    /\ decorated = NoFunction

BoundedSpec == BoundedInit /\ [][Next]_vars

\* ------------------------------------- two agents that differ in tracing

\* what the first agent's run did: how it ended, the store it left, the
\* gateway's outcomes and the executions of each Tool's func
Recording(res, msgs, log, counts) ==
    [result |-> res, messages |-> msgs, gw_log |-> log, calls |-> counts]

\* the gateway and the tools treat the second agent as they treated the
\* first: the next outcome is the one the first agent got at this call
Scripted(r) ==
    IF IsNone(recorded) THEN TRUE
    ELSE /\ Len(gw_log) < Len(Get(recorded).gw_log)
         /\ r = Get(recorded).gw_log[Len(gw_log) + 1]

\* each of the two agents is given one run
MayRun == runs = (IF IsNone(recorded) THEN 0 ELSE 1)

\* Agent(..., enable_tracing = not enabled): once the first agent's run has
\* ended, a second agent is built that differs in enable_tracing only
SecondAgent ==
    /\ IsNone(recorded)
    /\ pc = "idle" /\ result.kind # "none"
    /\ recorded' = Some(Recording(result, messages, gw_log, calls))
    /\ enabled' = ~enabled
    /\ messages' = <<>>
    /\ current_run' = None
    /\ step' = 0
    /\ pending' = <<>>
    /\ result' = NoResult
    /\ gw_log' = <<>>
    /\ issued' = 0
    /\ gw_calls' = 0
    /\ calls' = [n \in ToolNames |-> 0]
    /\ started' = FALSE
    /\ UNCHANGED <<strict, max_steps, tools, max_messages, pc, runs, invoked,
                   offered, added, ids, view, allocated, callers, decorated>>

TwinNext ==
    \/ \E message \in Inputs : MayRun /\ Run(message)
    \/ \E r \in GatewayOutcomes : Scripted(r) /\ LLMCall(r)
    \/ ToolStep
    \/ StepLimit
    \/ SecondAgent

TwinSpec == ExplainInit /\ [][TwinNext]_vars

\* ------------------------------------------- run called from two threads

\* The same run and _run_loop, called by several threads on one agent: the
\* locals of a call (its place, step, the requests left, its outcome) are
\* the thread's own, the store, the trace slot and the gateway are shared.
\* A thread switch is taken between the steps below only.

\* the gateway's outcomes in this specification
ConcOutcomes ==
    {Response(FALSE, <<>>, Some(<<"final">>), <<>>),
     Response(FALSE, <<>>, None, Batch(<<TGood>>)),
     Response(FALSE, <<>>, None, Batch(<<TBoom>>))}

\* what no step of a thread changes
ConcFrame ==
    UNCHANGED <<config, pc, step, pending, result, invoked, started, offered,
                added, ids, view, allocated, recorded, decorated>>

\* the locals of thread c when its run call ends with `res`
Ends(c, res) ==
    [callers EXCEPT ![c] =
        [pc |-> "idle", step |-> callers[c].step, pending |-> <<>>,
         result |-> (IF res.kind = "raised" THEN Raised(Reraise(res.err)) ELSE res)]]

\* thread c calls run(message)
CRun(c, message) ==
    /\ callers[c].pc = "idle"
    /\ runs < MaxRuns
    /\ runs' = runs + 1
    /\ current_run' = StartRun(current_run, enabled, message)
    /\ messages' = MemAdd(messages, max_messages, Msg("user", Some(<<message>>), None, None))
    /\ callers' = [callers EXCEPT ![c] =
                      [pc |-> "loop", step |-> 0, pending |-> <<>>, result |-> NoResult]]
    /\ UNCHANGED <<gw_log, issued, gw_calls, calls>>
    /\ ConcFrame

\* thread c makes one iteration of _run_loop up to its first tool request
CLLMCall(c, r) ==
    LET me == callers[c]
        traced == AddSteps(current_run, enabled, <<LlmCallStep>>)
    IN  /\ me.pc = "loop"
        /\ MoreSteps(me.step, max_steps)
        /\ gw_calls < MaxCalls
        /\ gw_calls' = gw_calls + 1
        /\ gw_log' = Append(gw_log, r)
        /\ issued' = issued + Len(r.tool_calls)
        /\ IF r.tool_calls # <<>>
           THEN /\ callers' = [callers EXCEPT ![c].pc = "tools",
                                              ![c].pending = r.tool_calls]
                /\ current_run' = traced
                /\ UNCHANGED messages
           ELSE /\ messages' = MemAdd(messages, max_messages,
                                      Msg("assistant", r.content, None, None))
                /\ current_run' = EndRun(traced, enabled, r.content, None)
                /\ callers' = Ends(c, Returned(Get(r.content)))
        /\ UNCHANGED <<runs, calls>>
        /\ ConcFrame

\* thread c processes its next tool request
CToolStep(c) ==
    LET me == callers[c]
        tc == Head(me.pending)
        ex == ExecuteTool(tools, strict, tc)
        traced == AddSteps(current_run, enabled, ex.steps)
        stored == MemAdd(messages, max_messages, Msg("assistant", None, Some(<<tc>>), None))
        res == LoopExcept(strict, ex.err.msg)
    IN  /\ me.pc = "tools"
        /\ calls' = (IF ex.called = "" THEN calls
                     ELSE [calls EXCEPT ![ex.called] = @ + 1])
        /\ IF ex.raised
           THEN /\ messages' = stored
                /\ current_run' = (IF res.kind = "raised"
                                   THEN EndRun(traced, enabled, None, Some(res.err))
                                   ELSE traced)
                /\ callers' = Ends(c, res)
           ELSE /\ messages' = MemAdd(stored, max_messages,
                                      Msg("tool", Some(ex.text), None, Some(tc.id)))
                /\ current_run' = traced
                /\ callers' = [callers EXCEPT
                                  ![c].pending = Tail(me.pending),
                                  ![c].pc = (IF Tail(me.pending) = <<>> THEN "loop"
                                             ELSE "tools"),
                                  ![c].step = (IF Tail(me.pending) = <<>>
                                               THEN me.step + 1 ELSE me.step)]
        /\ UNCHANGED <<gw_log, issued, gw_calls, runs>>
        /\ ConcFrame

\* thread c has used up its steps
CStepLimit(c) ==
    LET error == Exc("MaxStepsExceeded",
                     <<"Maximum number of steps (", ToString(max_steps), ") reached">>)
    IN  /\ callers[c].pc = "loop"
        /\ ~MoreSteps(callers[c].step, max_steps)
        /\ current_run' = EndRun(EndRun(current_run, enabled, None, Some(error)),
                                 enabled, None, Some(error))
        /\ callers' = Ends(c, Raised(error))
        /\ UNCHANGED <<messages, gw_log, issued, gw_calls, runs, calls>>
        /\ ConcFrame

ConcNext ==
    \E c \in Callers :
        \/ \E message \in Inputs : CRun(c, message)
        \/ \E r \in ConcOutcomes : CLLMCall(c, r)
        \/ CToolStep(c)
        \/ CStepLimit(c)

ConcSpec == Init /\ [][ConcNext]_vars

\* ------------------------------------------------------- the tool decorator

\* the annotations of the functions given to the decorator
\* plain classes, parameterized containers and unions; "UnionType" is the
\* origin of a union written X | Y
Annotations ==
    LET
        AFloat == Ann("none", "float", <<>>, "<class 'float'>")
        ABool == Ann("none", "bool", <<>>, "<class 'bool'>")
        AList == Ann("none", "list", <<>>, "<class 'list'>")
        ADict == Ann("none", "dict", <<>>, "<class 'dict'>")
        ATuple == Ann("none", "tuple", <<>>, "<class 'tuple'>")
        ABytes == Ann("none", "bytes", <<>>, "<class 'bytes'>")
        ATupleInt == Ann("tuple", "", <<AInt>>, "typing.Tuple[int]")
        ASetInt == Ann("set", "", <<AInt>>, "typing.Set[int]")
        ADictStrInt == Ann("dict", "", <<AStr, AInt>>, "typing.Dict[str, int]")
        AIntOrStr == Ann("Union", "", <<AInt, AStr>>, "typing.Union[int, str]")
        AIntOrStrOrNone == Ann("Union", "", <<AInt, AStr, ANoneType>>, "typing.Union[int, str, NoneType]")
        AOptListInt == Ann("Union", "", <<AListInt, ANoneType>>, "typing.Optional[typing.List[int]]")
        AIntBarNone == Ann("UnionType", "", <<AInt, ANoneType>>, "int | None")
    IN  {AEmpty, AInt, AStr, AFloat, ABool, AList, ADict, ATuple, ABytes, AAny,
         ANoneType, AListInt, ATupleInt, ASetInt, ADictStrInt, AOptInt,
         AIntOrStr, AIntOrStrOrNone, AOptListInt, AIntBarNone}

\* the signatures of the functions given to the decorator: one parameter
\* a, with or without a receiver self before it or a parameter b after it
Signatures ==
    LET As == {Param("a", ann, d) : ann \in Annotations, d \in BOOLEAN}
        Bs == {Param("b", AOptInt, d) : d \in BOOLEAN}
    IN  {<<a>> : a \in As}
        \cup {<<a, b>> : a \in As, b \in Bs}
        \cup {<<Param("self", AEmpty, FALSE), a>> : a \in As}

\* a function is about to be decorated
SchemaInit ==
    /\ strict = FALSE
    /\ max_steps = 0
    /\ enabled = TRUE
    /\ max_messages = None
    /\ tools = Registry
    /\ messages = <<>>
    /\ current_run = None
    /\ pc = "idle"
    /\ step = 0
    /\ pending = <<>>
    /\ result = NoResult
    /\ gw_log = <<>>
    /\ issued = 0
    /\ gw_calls = 0
    /\ runs = 0
    /\ calls = [n \in ToolNames |-> 0]
    /\ invoked = NoInvocation
    /\ started = FALSE
    /\ offered = <<>>
    /\ added = <<>>
    /\ ids = <<>>
    /\ view = None
    /\ allocated = 0
    /\ recorded = None
    /\ callers = [c \in Callers |-> Idle]
    /\ decorated \in {[name |-> "f", params |-> sig, schema |-> None] : sig \in Signatures}

\* tool(f): the Tool made has the schema of f's signature
Decorate ==
    /\ IsNone(decorated.schema)
    /\ decorated' = [decorated EXCEPT !.schema = Some(ToolSchema(decorated.params))]
    /\ UNCHANGED <<config, messages, current_run, pc, step, pending, result,
                   gw_log, issued, gw_calls, runs, calls, invoked, started,
                   offered, added, ids, view, allocated, recorded, callers>>

SchemaSpec == SchemaInit /\ [][Decorate]_vars

\* ------------------------------------------------- direct Tool invocation

\* the Tools and the keyword arguments they are invoked with
ToolDefs == <<AddTool, BoomTool, PickTool>>
KwargSets ==
    << <<>>,
       <<KV("a", VInt)>>,
       <<KV("b", VInt), KV("a", VInt)>>,
       <<KV("b", VInt)>>,
       <<KV("a", VInt), KV("z", VInt)>>,
       <<KV("a", VStr)>>,
       <<KV("a", VBool)>>,
       <<KV("a", VNone)>>,
       <<KV("a", VInt), KV("b", VStr)>>,
       <<KV("x", VStr)>>,
       <<KV("x", VInt)>>,
       <<KV("items", VListInt)>>,
       <<KV("items", VListMixed)>>,
       <<KV("items", VListLate)>>,
       <<KV("items", VStr)>>,
       <<KV("items", VListInt), KV("limit", VNone)>>,
       <<KV("items", VListInt), KV("limit", VInt)>>,
       <<KV("items", VListInt), KV("limit", VStr)>>,
       <<KV("items", VListInt), KV("tag", VInt)>>,
       <<KV("items", VListInt), KV("extra", VStr)>> >>

\* tool(**kwargs) called directly, as the tests do
Invoke(tool, kwargs) ==
    LET out == ToolCall(tool, kwargs)
    IN  /\ calls[tool.name] < MaxInvocations
        /\ invoked' = [tool |-> tool, kwargs |-> kwargs, before |-> calls[tool.name],
                       out |-> out]
        /\ calls' = (IF out.called THEN [calls EXCEPT ![tool.name] = @ + 1] ELSE calls)
        /\ UNCHANGED <<config, messages, current_run, pc, step, pending,
                       result, gw_log, issued, gw_calls, runs, started, bench>>

ToolInit ==
    /\ Init
    /\ ~strict
    /\ max_steps = 0

ToolNext ==
    \E i \in 1..Len(ToolDefs) : \E j \in 1..Len(KwargSets) :
        Invoke(ToolDefs[i], KwargSets[j])

ToolSpec == ToolInit /\ [][ToolNext]_vars

\* ------------------------------------------------------------ registration

\* An item of the tools list given to the constructor: a function that the
\* tool decorator gave a _tool attribute, a Tool instance, or anything else.
Item(kind, tool) == [kind |-> kind, tool |-> tool]
\* def add(a: str) -> str, a second function named add
AddAgain == MkTool("add", <<Param("a", AStr, FALSE)>>, None, VStr)
NotATool == Item("other", MkTool("", <<>>, None, VNone))
Items ==
    {Item("function", AddTool), Item("function", AddAgain), Item("tool", BoomTool),
     Item("function", PickTool), NotATool}

\* how one iteration of _register_tools ends: the registry afterwards and
\* the exception raised, if any
Registration(registry, raised, err) ==
    [tools |-> registry, raised |-> raised, err |-> err]

\* Mutant: a duplicate replaces the Tool registered under its name.
RegisterOneOverwrites(registry, isStrict, item) ==
    IF item.kind = "other"
    THEN Registration(registry, isStrict, NoExc)
    ELSE IF Registered(registry, item.tool.name)
    THEN Registration([i \in 1..Len(registry) |->
                          IF registry[i].name = item.tool.name THEN item.tool
                          ELSE registry[i]],
                      FALSE, NoExc)
    ELSE Registration(Append(registry, item.tool), FALSE, NoExc)

\* the body of "for tool in tools" in _register_tools for one item
RegisterOne(registry, isStrict, item) ==
    IF item.kind = "other"
    THEN IF isStrict
         THEN Registration(registry, TRUE,
                           Exc("ValueError",
                               <<"Invalid tool type: ", "object",
                                 ". Must be a function decorated with @tool or a Tool instance.">>))
         ELSE Registration(registry, FALSE, NoExc)
    ELSE IF Registered(registry, item.tool.name)
    THEN IF isStrict
         THEN Registration(registry, TRUE,
                           Exc("ValueError",
                               <<"Tool with name '", item.tool.name,
                                 "' already registered">>))
         ELSE Registration(registry, FALSE, NoExc)
    ELSE Registration(Append(registry, item.tool), FALSE, NoExc)

\* Agent.__init__ up to the call of _register_tools, with an empty registry
RegInit ==
    /\ strict \in BOOLEAN
    /\ max_steps = 0
    /\ enabled = TRUE
    /\ max_messages = None
    /\ tools = <<>>
    /\ messages = <<>>
    /\ current_run = None
    /\ pc = "init"
    /\ step = 0
    /\ pending = <<>>
    /\ result = NoResult
    /\ gw_log = <<>>
    /\ issued = 0
    /\ gw_calls = 0
    /\ runs = 0
    /\ calls = [n \in ToolNames |-> 0]
    /\ invoked = NoInvocation
    /\ started = FALSE
    /\ offered = <<>>
    /\ added = <<>>
    /\ ids = <<>>
    /\ view = None
    /\ allocated = 0
    /\ recorded = None
    /\ callers = [c \in Callers |-> Idle]
    /\ decorated = NoFunction

\* one iteration of the loop of _register_tools; an exception leaves the
\* constructor, and no agent is made
Register(item) ==
    LET out == RegisterOne(tools, strict, item)
    IN  /\ pc = "init"
        /\ Len(offered) < MaxOffered
        /\ offered' = Append(offered, item)
        /\ tools' = out.tools
        /\ pc' = (IF out.raised THEN "failed" ELSE "init")
        /\ result' = (IF out.raised THEN Raised(out.err) ELSE result)
        /\ UNCHANGED <<strict, max_steps, max_messages, enabled, messages,
                       current_run, step, pending, gw_log, issued, gw_calls,
                       runs, calls, invoked, started, added, ids, view,
                       allocated, recorded, callers, decorated>>

\* the end of the tools list: the constructor goes on and returns the agent
Constructed ==
    /\ pc = "init"
    /\ pc' = "idle"
    /\ UNCHANGED <<config, messages, current_run, step, pending, result,
                   gw_log, issued, gw_calls, runs, calls, invoked, started, bench>>

RegNext ==
    \/ \E item \in Items : Register(item)
    \/ Constructed

RegSpec == RegInit /\ [][RegNext]_vars

\* ---------------------------------------------------- the store on its own

\* The objects of the store.  A stored message is a dict with an identity
\* (oid); its tool_calls value, when not None, is a list with an identity
\* (lid, 0 for None).  Two dicts that hold the same list share its lid.
Obj(oid, lid, msg) == [oid |-> oid, lid |-> lid, msg |-> msg]

\* the messages the store is given
StoreMsgs ==
    {Msg("user", Some(<<"a">>), None, None),
     Msg("assistant", None, Some(<<Request(1, "add", Json("object", <<>>))>>), None)}

Limits == {None} \cup {Some(n) : n \in 0..MaxLimit}

\* message = {...} in add: a new dict; the tool_calls list is the caller's
NewObj(n, msg) == Obj(n + 1, IF IsNone(msg.tool_calls) THEN 0 ELSE n + 2, msg)

\* Mutant: get_messages hands out the stored dicts themselves.
SnapshotAliased(objs, n) == objs

\* [msg.copy() for msg in messages]: a new list of new dicts, each a
\* shallow copy, so that a copy holds the tool_calls list of its original
Snapshot(objs, n) ==
    [i \in 1..Len(objs) |-> Obj(n + i, objs[i].lid, objs[i].msg)]

\* the store as objects: the dict and list identities with the contents
Stored == [i \in 1..Len(messages) |-> Obj(ids[i].oid, ids[i].lid, messages[i])]

\* returned[i]["content"] = ...: the dict with identity oid gets a new
\* content, wherever it is held
SetContent(objs, oid) ==
    [i \in 1..Len(objs) |->
        IF objs[i].oid = oid
        THEN [objs[i] EXCEPT !.msg.content = Some(<<"edited">>)]
        ELSE objs[i]]

\* returned[i]["tool_calls"].clear(): the list with identity lid is
\* emptied in place, in every dict that holds it
ClearCalls(objs, lid) ==
    [i \in 1..Len(objs) |->
        IF objs[i].lid = lid
        THEN [objs[i] EXCEPT !.msg.tool_calls = Some(<<>>)]
        ELSE objs[i]]

Contents(objs) == [i \in 1..Len(objs) |-> objs[i].msg]
Identities(objs) == [i \in 1..Len(objs) |-> [oid |-> objs[i].oid, lid |-> objs[i].lid]]

\* InMemoryMemory(max_messages)
StoreInit ==
    /\ strict = FALSE
    /\ max_steps = 0
    /\ enabled = TRUE
    /\ max_messages \in {None} \cup {Some(n) : n \in 0..MaxKeep}
    /\ tools = Registry
    /\ messages = <<>>
    /\ current_run = None
    /\ pc = "idle"
    /\ step = 0
    /\ pending = <<>>
    /\ result = NoResult
    /\ gw_log = <<>>
    /\ issued = 0
    /\ gw_calls = 0
    /\ runs = 0
    /\ calls = [n \in ToolNames |-> 0]
    /\ invoked = NoInvocation
    /\ started = FALSE
    /\ offered = <<>>
    /\ added = <<>>
    /\ ids = <<>>
    /\ view = None
    /\ allocated = 0
    /\ recorded = None
    /\ callers = [c \in Callers |-> Idle]
    /\ decorated = NoFunction

\* what no action of the store specification changes
StoreFrame ==
    UNCHANGED <<config, current_run, pc, step, pending, result, gw_log, issued,
                gw_calls, runs, calls, invoked, started, offered, recorded,
                callers, decorated>>

\* memory.add(role, content, tool_calls=..., tool_call_id=...)
Add(msg) ==
    LET obj == NewObj(allocated, msg)
        kept == MemAdd(Stored, max_messages, obj)
    IN  /\ Len(added) < MaxAdds
        /\ allocated < MaxObjects
        /\ added' = Append(added, obj)
        /\ messages' = Contents(kept)
        /\ ids' = Identities(kept)
        /\ allocated' = allocated + 2
        /\ UNCHANGED view
        /\ StoreFrame

\* memory.clear()
Clear ==
    /\ messages # <<>>
    /\ messages' = <<>>
    /\ ids' = <<>>
    /\ added' = <<>>
    /\ UNCHANGED <<view, allocated>>
    /\ StoreFrame

\* returned = memory.get_messages(limit), the one list the caller holds
GetMsgs(limit) ==
    LET got == Snapshot(GetMessages(Stored, limit), allocated)
    IN  /\ IsNone(view)
        /\ view' = Some([limit |-> limit, list |-> got, edits |-> 0])
        /\ allocated' = allocated + Len(got)
        /\ UNCHANGED <<messages, ids, added>>
        /\ StoreFrame

\* what an in-place change of an object does to the store, to the list the
\* caller holds and to the objects add made
Written(objs) ==
    /\ messages' = Contents(objs)
    /\ UNCHANGED <<ids, allocated>>
    /\ StoreFrame

\* the caller holds a list and may change it
Editable == ~IsNone(view) /\ Get(view).edits < MaxEdits

\* returned.append({...}): the caller adds a dict of its own to the list
ViewAppend ==
    /\ Editable
    /\ view' = Some([Get(view) EXCEPT
                        !.edits = @ + 1,
                        !.list = Append(@, Obj(0, 0, Msg("user", Some(<<"mine">>), None, None)))])
    /\ UNCHANGED added
    /\ Written(Stored)

\* del returned[i]
ViewRemove(i) ==
    /\ Editable
    /\ i \in 1..Len(Get(view).list)
    /\ view' = Some([Get(view) EXCEPT
                        !.edits = @ + 1,
                        !.list = SubSeq(@, 1, i - 1) \o SubSeq(@, i + 1, Len(@))])
    /\ UNCHANGED added
    /\ Written(Stored)

\* returned[i] = {...}
ViewReplace(i) ==
    /\ Editable
    /\ i \in 1..Len(Get(view).list)
    /\ view' = Some([Get(view) EXCEPT
                        !.edits = @ + 1,
                        !.list[i] = Obj(0, 0, Msg("user", Some(<<"mine">>), None, None))])
    /\ UNCHANGED added
    /\ Written(Stored)

\* returned[i]["content"] = "edited"
ViewSetField(i) ==
    /\ Editable
    /\ i \in 1..Len(Get(view).list)
    /\ LET oid == Get(view).list[i].oid
       IN  /\ view' = Some([Get(view) EXCEPT !.edits = @ + 1, !.list = SetContent(@, oid)])
           /\ added' = SetContent(added, oid)
           /\ Written(SetContent(Stored, oid))

\* returned[i]["tool_calls"].clear(): a change inside the list that the
\* copy shares with the stored dict
ViewClearCalls(i) ==
    /\ Editable
    /\ i \in 1..Len(Get(view).list)
    /\ Get(view).list[i].lid # 0
    /\ LET lid == Get(view).list[i].lid
       IN  /\ view' = Some([Get(view) EXCEPT !.edits = @ + 1, !.list = ClearCalls(@, lid)])
           /\ added' = ClearCalls(added, lid)
           /\ Written(ClearCalls(Stored, lid))

StoreNext ==
    \/ \E msg \in StoreMsgs : Add(msg)
    \/ Clear
    \/ \E limit \in Limits : GetMsgs(limit)
    \/ ViewAppend
    \/ \E i \in 1..MaxLimit : ViewRemove(i)
    \/ \E i \in 1..MaxLimit : ViewReplace(i)
    \/ \E i \in 1..MaxLimit : ViewSetField(i)
    \/ \E i \in 1..MaxLimit : ViewClearCalls(i)

StoreSpec == StoreInit /\ [][StoreNext]_vars

\* ================================================================== claims

\* the latest run has ended: it returned or it raised
Ended == pc = "idle" /\ result.kind # "none"

\* the request tc asks for the registered tool add with valid arguments
IsShape(tc, shape) == tc.name = shape.name /\ tc.arguments = shape.arguments

\* the step types of the current trace, in order
StepTypes == [i \in 1..Len(Get(current_run).steps) |-> Get(current_run).steps[i].step_type]

\* sub occurs in text as a run of consecutive tokens
ContainsText(text, sub) ==
    \E i \in 1..(Len(text) - Len(sub) + 1) : SubSeq(text, i, i + Len(sub) - 1) = sub

\* ---- C1

\* every gateway call of the current run was answered with at least one
\* tool request, each for a registered tool with arguments it accepts
AlwaysTools ==
    \A i \in 1..Len(gw_log) :
        /\ ~gw_log[i].failed
        /\ gw_log[i].tool_calls # <<>>
        /\ \A j \in 1..Len(gw_log[i].tool_calls) : IsShape(gw_log[i].tool_calls[j], TGood)

\* C1: with a gateway that answers every call with tool requests that
\* succeed, a run never returns a value, makes at most max_steps gateway
\* calls, and ends only by raising MaxStepsExceeded after exactly max_steps
\* gateway calls, in strict and in non-strict mode.
C1_StepLimit ==
    (runs > 0 /\ AlwaysTools) =>
        /\ result.kind # "returned"
        /\ Len(gw_log) <= max_steps
        /\ Ended => /\ result.kind = "raised"
                    /\ result.err.kind = "MaxStepsExceeded"
                    /\ Len(gw_log) = max_steps

C1_Witness ==
    /\ Ended /\ AlwaysTools /\ strict
    /\ max_steps = 2 /\ Len(gw_log) = 2
    /\ result.err.kind = "MaxStepsExceeded"

\* ---- C2

\* the gateway answered the first call of the current run with exactly one
\* tool request and the second call with final text, and the run has ended
OneRoundScript ==
    /\ Ended /\ ~IsNone(current_run)
    /\ Len(gw_log) = 2
    /\ ~gw_log[1].failed /\ Len(gw_log[1].tool_calls) = 1
    /\ ~gw_log[2].failed /\ gw_log[2].tool_calls = <<>>
    /\ Truthy(gw_log[2].content)

\* the number of model-call steps directly followed by a tool-call step
CallPairs ==
    Cardinality({i \in 1..(Len(StepTypes) - 1) :
                    StepTypes[i] = "llm_call" /\ StepTypes[i + 1] = "tool_call"})
ModelCalls == Cardinality({i \in 1..Len(StepTypes) : StepTypes[i] = "llm_call"})

\* C2: with a gateway that answers the first call with one tool request
\* and the second call with final text, the run returns that text and its
\* trace holds exactly one model-call-then-tool-call pair followed by one
\* more model-call step, the last step of the trace.
C2_OneRound ==
    OneRoundScript =>
        /\ result = Returned(Get(gw_log[2].content))
        /\ CallPairs = 1
        /\ ModelCalls = 2
        /\ StepTypes[Len(StepTypes)] = "llm_call"

\* ---- C3

\* C3: in non-strict mode the only error a run raises is MaxStepsExceeded,
\* whatever the gateway and the tools do.
C3_NonStrictRaisesOnlyStepLimit ==
    (~strict /\ result.kind = "raised") => result.err.kind = "MaxStepsExceeded"

\* a non-strict run that absorbed a failing tool and then a failing gateway
\* call, and returned
C3_Witness ==
    /\ ~strict /\ Ended /\ result.kind = "returned"
    /\ Len(gw_log) = 2 /\ gw_log[2].failed
    /\ \E i \in 1..Len(messages) :
          /\ messages[i].role = "tool"
          /\ ContainsText(Get(messages[i].content), <<"ValueError", ": ", "bad input">>)

\* ---- C4

\* C4: when the gateway call fails, a strict run raises LLMError carrying
\* the failure's text, and a non-strict run returns the text of that error.
C4_GatewayFailure ==
    (runs > 0 /\ gw_log # <<>> /\ gw_log[Len(gw_log)].failed) =>
        LET text == <<"Error in LLM communication: ">> \o gw_log[Len(gw_log)].text
        IN  /\ Ended
            /\ strict => result = Raised(Exc("LLMError", text))
            /\ ~strict => result = Returned(text)

C4_Witness ==
    /\ strict /\ gw_log # <<>> /\ gw_log[Len(gw_log)].failed
    /\ result.kind = "raised" /\ result.err.kind = "LLMError"

\* ---- C5, C6

\* the latest run raised while it processed a request of the given shape:
\* the store ends with the assistant message that carries the request
RaisedAt(shape) ==
    /\ Ended /\ result.kind = "raised"
    /\ messages # <<>>
    /\ messages[Len(messages)].role = "assistant"
    /\ ~IsNone(messages[Len(messages)].tool_calls)
    /\ IsShape(Get(messages[Len(messages)].tool_calls)[1], shape)

\* C5: in strict mode, when a registered tool's body raises, the error that
\* leaves run is a ToolExecutionError.
C5_StrictToolFailureKind ==
    (strict /\ RaisedAt(TBoom)) => result.err.kind = "ToolExecutionError"

\* C6: in strict mode, a request whose arguments are malformed JSON, miss a
\* required parameter, hold an unknown key or have a mismatching type makes
\* run raise InvalidToolArguments.
C6_StrictInvalidArgumentsKind ==
    (strict /\ \E shape \in {TMalformed, TMissing, TExtra, TMismatch} : RaisedAt(shape))
        => result.err.kind = "InvalidToolArguments"

\* ---- C7

\* a non-strict run is about to process a request whose tool body raises
AtFailingTool == pc = "tools" /\ ~strict /\ IsShape(Head(pending), TBoom)

\* the store has grown by the assistant message of the request and a tool
\* message that carries the request's id, the tool's name and the text of
\* the exception the body raised
FailureAppended ==
    /\ Len(messages') = Len(messages) + 2
    /\ SubSeq(messages', 1, Len(messages)) = messages
    /\ messages'[Len(messages') - 1] = Msg("assistant", None, Some(<<Head(pending)>>), None)
    /\ LET m == messages'[Len(messages')]
       IN  /\ m.role = "tool"
           /\ m.tool_call_id = Some(Head(pending).id)
           /\ IsNone(m.tool_calls)
           /\ Contains(Get(m.content), Head(pending).name)
           /\ ContainsText(Get(m.content), Get(BoomTool.raises).msg)

\* C7 as stated: the failure is appended as a tool message, the run does
\* not raise, and the loop goes on to the next gateway call (there is a
\* next iteration).
C7_AsStated ==
    [][AtFailingTool =>
          /\ FailureAppended
          /\ result'.kind = "none"
          /\ MoreSteps(step + 1, max_steps)]_vars

\* C7 amended: the failure is appended as a tool message, the run does not
\* raise or return in that step, and the loop goes on: to the next request
\* of the same response, else to the next iteration, which makes the next
\* gateway call unless max_steps iterations are used up.
C7_FailureAbsorbed ==
    [][AtFailingTool =>
          /\ FailureAppended
          /\ result'.kind = "none"
          /\ IF Len(pending) > 1
             THEN pc' = "tools" /\ step' = step
             ELSE pc' = "loop" /\ step' = step + 1]_vars

\* a non-strict run has absorbed the failure and made its next gateway call
C7_Witness ==
    /\ ~strict /\ pc = "loop" /\ Len(gw_log) = 2
    /\ Len(gw_log[1].tool_calls) = 1 /\ IsShape(gw_log[1].tool_calls[1], TBoom)
    /\ messages[Len(messages)].role = "tool"
    /\ ContainsText(Get(messages[Len(messages)].content), <<"ValueError", ": ", "bad input">>)

\* ---- C8

\* the latest direct invocation omits a required parameter
OmitsRequired ==
    \E i \in 1..Len(invoked.tool.params) :
        /\ ~invoked.tool.params[i].has_default
        /\ \A j \in 1..Len(invoked.kwargs) :
              invoked.kwargs[j].k # invoked.tool.params[i].name

\* the latest direct invocation carries a key that is no parameter
HasUnknownKey ==
    \E j \in 1..Len(invoked.kwargs) :
        \A i \in 1..Len(invoked.tool.params) :
            invoked.kwargs[j].k # invoked.tool.params[i].name

Happened == invoked.tool.name # ""

\* C8: an invocation that omits a required parameter or carries a key that
\* is no parameter raises InvalidToolArguments and does not execute the
\* function: its call count is unchanged.
C8_BindingAtomic ==
    (Happened /\ (OmitsRequired \/ HasUnknownKey)) =>
        /\ invoked.out.raised
        /\ invoked.out.err.kind = "InvalidToolArguments"
        /\ ~invoked.out.called
        /\ calls[invoked.tool.name] = invoked.before

\* add was executed once, then invoked without its required parameter
C8_Witness ==
    /\ Happened /\ invoked.tool = AddTool /\ OmitsRequired /\ ~HasUnknownKey
    /\ invoked.before = 1 /\ calls["add"] = 1
    /\ invoked.out.err.kind = "InvalidToolArguments"

\* ---- C9

\* C9: whatever the function raises leaves the invocation as a
\* ToolExecutionError whose message holds the tool's name, the class name
\* of the original exception and its message; an invocation that executed
\* the function raises nothing else.
C9_ExecutionErrorWrapped ==
    (Happened /\ invoked.out.called) =>
        /\ invoked.out.raised <=> ~IsNone(invoked.tool.raises)
        /\ invoked.out.raised =>
              /\ invoked.out.err.kind = "ToolExecutionError"
              /\ Contains(invoked.out.err.msg, invoked.tool.name)
              /\ Contains(invoked.out.err.msg, Get(invoked.tool.raises).kind)
              /\ ContainsText(invoked.out.err.msg, Get(invoked.tool.raises).msg)

C9_Witness ==
    /\ Happened /\ invoked.tool = BoomTool /\ invoked.out.called
    /\ invoked.out.err.kind = "ToolExecutionError"

\* ---- C10

\* the signature binds the keyword arguments of the latest invocation
Binds == ~OmitsRequired /\ ~HasUnknownKey

\* a given argument of an annotated parameter is not None and fails the
\* type check
HasMismatch ==
    \E j \in 1..Len(invoked.kwargs) :
        LET ann == AnnOf(invoked.tool.params, invoked.kwargs[j].k)
        IN  /\ ann # AEmpty
            /\ invoked.kwargs[j].v # VNone
            /\ ~IsInstanceOfType(invoked.kwargs[j].v, ann)

RECURSIVE ToolsOffered(_)
ToolsOffered(items) ==
    IF items = <<>> THEN <<>>
    ELSE (IF Head(items).kind = "other" THEN <<>> ELSE <<Head(items).tool>>)
         \o ToolsOffered(Tail(items))

\* the first tool offered under the given name
FirstOffered(name) ==
    LET ts == ToolsOffered(offered)
    IN  ts[CHOOSE i \in 1..Len(ts) :
               ts[i].name = name /\ \A j \in 1..(i - 1) : ts[j].name # name]

\* two of the tools offered share a name
DuplicateOffered ==
    LET ts == ToolsOffered(offered)
    IN  \E i, j \in 1..Len(ts) : i < j /\ ts[i].name = ts[j].name

\* C11: tool names are unique in the registry; a tool offered under a name
\* already registered makes a strict constructor raise, and a non-strict one
\* skip it: the registry keeps the first tool offered under each name and
\* has one entry per distinct name.
C11_UniqueToolNames ==
    LET ts == ToolsOffered(offered)
    IN  /\ \A i, j \in 1..Len(tools) : tools[i].name = tools[j].name => i = j
        /\ \A i \in 1..Len(tools) : tools[i] = FirstOffered(tools[i].name)
        /\ (strict /\ DuplicateOffered) =>
              /\ pc = "failed"
              /\ result.kind = "raised"
              /\ result.err.kind = "ValueError"
        /\ ~strict =>
              /\ pc # "failed"
              /\ result.kind = "none"
              /\ Len(tools) = Cardinality({ts[i].name : i \in 1..Len(ts)})
              /\ \A i \in 1..Len(ts) : Registered(tools, ts[i].name)

\* a non-strict agent was offered add twice, with another tool in between
C11_Witness ==
    /\ ~strict /\ pc = "idle"
    /\ offered = <<Item("function", AddTool), Item("tool", BoomTool),
                   Item("function", AddAgain)>>
    /\ tools = <<AddTool, BoomTool>>

\* ---- C12

\* the last n elements of a sequence (all of it when it has fewer)
LastOf(seq, n) ==
    SubSeq(seq, (IF Len(seq) > n THEN Len(seq) - n ELSE 0) + 1, Len(seq))

\* C12: after k add calls and no clear, a store with max_messages = N holds
\* exactly the last min(k, N) messages added, in the order added, and never
\* more than N; a store without a limit holds them all.
C12_MemoryBound ==
    IF IsNone(max_messages)
    THEN Stored = added
    ELSE /\ Stored = LastOf(added, Get(max_messages))
         /\ Len(messages) <= Get(max_messages)

\* a store with max_messages = 2 after three add calls, the first message
\* unlike the second
C12_Witness ==
    /\ max_messages = Some(2) /\ Len(added) = 3
    /\ added[1].msg # added[2].msg
    /\ messages = <<added[2].msg, added[3].msg>>

\* ---- C13

\* C13: get_messages(limit) with limit >= 0 returns exactly the
\* min(limit, n) most recent of the n stored messages, in store order, and
\* get_messages() returns all n.
C13_MostRecent ==
    [][\A limit \in Limits :
          GetMsgs(limit) =>
             Contents(Get(view').list) =
                (IF IsNone(limit) THEN messages ELSE LastOf(messages, Get(limit)))]_vars

\* ---- C14

\* the caller changes the list it was given: it appends, removes or
\* replaces an element, or sets a field of a returned message
CallerEdits ==
    \/ ViewAppend
    \/ \E i \in 1..MaxLimit : ViewRemove(i)
    \/ \E i \in 1..MaxLimit : ViewReplace(i)
    \/ \E i \in 1..MaxLimit : ViewSetField(i)

C15_ResetFrame ==
    [][Reset =>
          /\ messages' = <<>>
          /\ current_run' = None
          /\ tools' = tools
          /\ max_steps' = max_steps
          /\ strict' = strict]_vars

\* a run has ended and the agent was reset after it
C15_Witness ==
    /\ runs >= 1 /\ ~started /\ result.kind # "none" /\ pc = "idle"
    /\ messages = <<>> /\ current_run = None /\ tools = Registry

\* ---- C16

\* what explain returns is the serialized trace of the run started last:
\* it has that run's model calls and, once the run has ended, its outcome
OfLatestRun(e) ==
    /\ e.status = ""
    /\ ~IsNone(e.trace)
    /\ LET t == Get(e.trace)
       IN  /\ t.input \in Inputs
           /\ Cardinality({i \in 1..Len(t.steps) : t.steps[i].step_type = "llm_call"})
                 = Len(gw_log)
           /\ ~IsNone(t.output) => result = Returned(Get(t.output))
           /\ result.kind = "raised" =>
                 /\ t.error = Some(ErrText(result.err))
                 /\ ~IsNone(t.end_time)
           /\ result.kind = "none" => IsNone(t.end_time)

\* C16 as stated: explain returns the marker whenever no run was started
\* since construction or the last reset, and otherwise the serialized
\* trace of the run started last.
C16_AsStated ==
    IF started THEN OfLatestRun(Explain(current_run))
    ELSE Explain(current_run) = NoActiveRun

\* C16 amended: with tracing enabled, explain returns the marker whenever no
\* run was started since construction or the last reset, and otherwise the
\* serialized trace of the run started last; with tracing disabled it
\* always returns the marker.
C16_Explain ==
    IF started /\ enabled THEN OfLatestRun(Explain(current_run))
    ELSE Explain(current_run) = NoActiveRun

\* the second run of an agent with tracing has ended, and explain returns
\* a trace
C16_Witness ==
    /\ enabled /\ started /\ runs = 2 /\ Ended
    /\ Explain(current_run) # NoActiveRun
    /\ Len(Get(Explain(current_run).trace).steps) > 0

\* ---- C17

IsPrefix(a, b) == Len(a) <= Len(b) /\ SubSeq(b, 1, Len(a)) = a

\* C17: an agent that differs from another in enable_tracing only, given
\* the same gateway and tool outcomes, asks the gateway exactly when the
\* other did, executes the same tools, leaves the same messages in the
\* store and ends its run the same way.
C17_TracingSideChannel ==
    ~IsNone(recorded) =>
        LET first == Get(recorded)
        IN  /\ IsPrefix(messages, first.messages)
            /\ IsPrefix(gw_log, first.gw_log)
            /\ \A n \in ToolNames : calls[n] <= first.calls[n]
            /\ (pc = "loop" /\ MoreSteps(step, max_steps)) =>
                  Len(gw_log) < Len(first.gw_log)
            /\ (pc = "idle" /\ result.kind # "none") =>
                  /\ result = first.result
                  /\ messages = first.messages
                  /\ gw_log = first.gw_log
                  /\ calls = first.calls

\* the run of a second agent without tracing has ended after a gateway
\* call and the execution of a tool, like the run of the first
C17_Witness ==
    /\ ~IsNone(recorded) /\ ~enabled /\ IsNone(current_run)
    /\ pc = "idle" /\ result.kind # "none"
    /\ Len(gw_log) = 2 /\ calls["add"] = 1
    /\ result = Get(recorded).result

\* ---- C18

\* the threads that are inside run
InFlight == {c \in Callers : callers[c].pc # "idle"}

\* C18: run calls on one agent are serialized: no run starts its trace or
\* appends its user message while another run on that agent is between its
\* start and its return or raise, so the current trace never holds the
\* steps of two runs (a run logs at most max_steps model calls).
C18_Serialized ==
    /\ Cardinality(InFlight) <= 1
    /\ ~IsNone(current_run) =>
          Cardinality({i \in 1..Len(Get(current_run).steps) :
                          Get(current_run).steps[i].step_type = "llm_call"}) <= max_steps

\* ---- C19

\* the schema made for the decorated function, and its entry for a parameter
Made == Get(decorated.schema)
Entry(name) ==
    Made.properties[CHOOSE i \in 1..Len(Made.properties) : Made.properties[i].name = name]

Alternatives(ann) == {ann.args[i] : i \in 1..Len(ann.args)} \ {ANoneType}

\* the schema type the mapping rules give an annotation
RECURSIVE Expected(_)
Expected(ann) ==
    IF ann.origin = "empty" THEN "string"
    ELSE IF ann.origin \in {"Union", "UnionType"}
    THEN IF Cardinality(Alternatives(ann)) = 1
         THEN Expected(CHOOSE alt \in Alternatives(ann) : TRUE)
         ELSE "string"
    ELSE IF ann.origin \in {"list", "tuple", "set"} THEN "array"
    ELSE IF ann.origin = "dict" THEN "object"
    ELSE IF ann.base = "str" THEN "string"
    ELSE IF ann.base = "int" THEN "integer"
    ELSE IF ann.base = "float" THEN "number"
    ELSE IF ann.base = "bool" THEN "boolean"
    ELSE IF ann.base = "list" THEN "array"
    ELSE IF ann.base = "dict" THEN "object"
    ELSE "string"

\* C20: the schema type of a parameter is the counterpart of str, int,
\* float, bool, list or dict, array for a parameterized list, tuple or set,
\* object for a parameterized dict, the type of the sole non-null
\* alternative of a union, and string for a union of several non-null
\* alternatives, an unknown type or a missing annotation.
C20_SchemaTypes ==
    ~IsNone(decorated.schema) =>
        \A i \in 1..Len(decorated.params) :
            LET p == decorated.params[i]
            IN  p.name # "self" =>
                   /\ Entry(p.name).type \in
                         {"string", "integer", "number", "boolean", "array", "object"}
                   /\ Entry(p.name).type = Expected(p.ann)

\* ---- C21

\* exception classes outside the AgentError hierarchy
OtherErrors == {"ValueError", "KeyError", "TypeError", "ConnectionError"}

\* C21: every error that leaves run is an AgentError: MaxStepsExceeded,
\* LLMError, ToolExecutionError and InvalidToolArguments are AgentError
\* subtypes and pass unchanged, and any other exception that reaches the
\* handler of run is re-raised as AgentError("Agent failed: ...").
C21_AgentErrorsOnly ==
    /\ result.kind = "raised" => result.err.kind \in AgentErrors
    /\ \A k \in AgentErrors : Reraise(Exc(k, <<"x">>)) = Exc(k, <<"x">>)
    /\ \A k \in OtherErrors :
          Reraise(Exc(k, <<"x">>)) = Exc("AgentError", <<"Agent failed: ", "x">>)

\* a strict run has raised because a tool failed, another because the loop
\* was exhausted
C21_Witness ==
    /\ result.kind = "raised"
    /\ \/ /\ strict
          /\ result.err.kind = "LLMError"
          /\ gw_log # <<>> /\ gw_log[Len(gw_log)].tool_calls # <<>>
       \/ /\ ~strict
          /\ result.err.kind = "MaxStepsExceeded"
          /\ gw_log # <<>>

\* ---- C22

\* C22: whenever run has returned a text t without raising, the trace of the
\* run is ended: its end_time is set and its output is t.
C22_ReturnEndsTrace ==
    (started /\ result.kind = "returned") =>
        /\ ~IsNone(current_run)
        /\ ~IsNone(Get(current_run).end_time)
        /\ Get(current_run).output = Some(result.text)

\* ---- C23

\* C23: whenever run has returned a text t without raising, the last message
\* of the store (no retention limit) is an assistant message with content t
\* and without tool requests.
C23_ReturnedTextStored ==
    (started /\ result.kind = "returned") =>
        /\ messages # <<>>
        /\ messages[Len(messages)] = Msg("assistant", Some(result.text), None, None)

\* ---- C24

\* C24: in every state of the store, with or without a retention limit,
\* every tool message is immediately preceded by an assistant message whose
\* tool_calls hold a request with the tool message's tool_call_id.
C24_ToolMessageFollowsRequest ==
    \A i \in 1..Len(messages) :
        messages[i].role = "tool" =>
            /\ i > 1
            /\ messages[i - 1].role = "assistant"
            /\ ~IsNone(messages[i - 1].tool_calls)
            /\ \E j \in 1..Len(Get(messages[i - 1].tool_calls)) :
                  Some(Get(messages[i - 1].tool_calls)[j].id) = messages[i].tool_call_id

\* ---- C25

\* the requests of the assistant message at position i of the store
RequestsAt(i) ==
    IF messages[i].role = "assistant" /\ ~IsNone(messages[i].tool_calls)
    THEN {Get(messages[i].tool_calls)[j] : j \in 1..Len(Get(messages[i].tool_calls))}
    ELSE {}

\* C25: by the time a run has returned or raised, in strict and in
\* non-strict mode, every tool request that an assistant message of the
\* store carries has a tool message with its id after it.
C25_EveryRequestAnswered ==
    (started /\ result.kind # "none") =>
        \A i \in 1..Len(messages) : \A req \in RequestsAt(i) :
            \E k \in (i + 1)..Len(messages) :
                /\ messages[k].role = "tool"
                /\ messages[k].tool_call_id = Some(req.id)

\* ---- C26

\* the tool requests of the gateway's latest response
LatestRequests == gw_log[Len(gw_log)].tool_calls

\* the last n messages of the store
LastMessages(n) == SubSeq(messages, Len(messages) - n + 1, Len(messages))

\* msgs is assistant(r1), tool(r1), ..., assistant(rn), tool(rn) for the
\* requests reqs = r1..rn, each assistant message with that one request
IsExchange(msgs, reqs) ==
    /\ Len(msgs) = 2 * Len(reqs)
    /\ \A i \in 1..Len(reqs) :
          /\ msgs[2 * i - 1] = Msg("assistant", None, Some(<<reqs[i]>>), None)
          /\ msgs[2 * i].role = "tool"
          /\ msgs[2 * i].tool_calls = None
          /\ msgs[2 * i].tool_call_id = Some(reqs[i].id)

\* while the requests of a response are processed, those already processed
\* have left their exchange at the end of the store, in the order given
ProcessedInOrder ==
    pc = "tools" =>
        LET done == Len(LatestRequests) - Len(pending)
        IN  /\ pending = SubSeq(LatestRequests, done + 1, Len(LatestRequests))
            /\ Len(messages) >= 2 * done
            /\ IsExchange(LastMessages(2 * done), SubSeq(LatestRequests, 1, done))

\* one request is processed: only its Tool is executed, and the store
\* receives its assistant message and then, unless the run raises, its tool
\* message
OneAtATime ==
    ToolStep =>
        LET tc == Head(pending)
            m1 == Msg("assistant", None, Some(<<tc>>), None)
        IN  /\ \A n \in ToolNames : calls'[n] # calls[n] => n = tc.name
            /\ IF result'.kind = "raised"
               THEN messages' = Append(messages, m1)
               ELSE /\ Len(messages') = Len(messages) + 2
                    /\ SubSeq(messages', 1, Len(messages)) = messages
                    /\ IsExchange(SubSeq(messages', Len(messages) + 1, Len(messages')),
                                  <<tc>>)

\* C26: the tool requests r1..rk of one response are executed one at a time
\* in the order given: the store receives assistant(r1), tool(r1),
\* assistant(r2), tool(r2), ..., each assistant message carries one request,
\* and r(i+1) is not executed before the tool message of r(i) is appended.
C26_OneAtATimeInOrder == []ProcessedInOrder /\ [][OneAtATime]_vars

\* a response with two requests has been processed
C26_Witness ==
    /\ pc = "loop" /\ step > 0 /\ gw_log # <<>>
    /\ Len(LatestRequests) = 2
    /\ Len(messages) >= 4
    /\ IsExchange(LastMessages(4), LatestRequests)
    /\ LatestRequests[1].id # LatestRequests[2].id

\* ---- C27

\* the gateway answers with tool requests: nothing is stored or returned,
\* and the requests are taken up
RequestsTakenUp ==
    (\E r \in GatewayOutcomes : r.tool_calls # <<>> /\ LLMCall(r)) =>
        /\ messages' = messages
        /\ result'.kind = "none"
        /\ pc' = "tools"
        /\ pending' = LatestRequests'

\* a request is processed: the run does not return, and after the last
\* request the loop goes to its next iteration
NextIteration ==
    ToolStep =>
        /\ result'.kind # "returned"
        /\ (result'.kind = "none" /\ Len(pending) = 1) =>
               /\ pc' = "loop"
               /\ step' = step + 1
        /\ (result'.kind = "none" /\ Len(pending) > 1) => pc' = "tools" /\ step' = step

\* at the head of an iteration the loop makes another gateway call or fails
\* with the step limit (the model stops at MaxCalls gateway calls)
LoopGoesOn ==
    pc = "loop" =>
        \/ ENABLED (\E r \in GatewayOutcomes : LLMCall(r))
        \/ ENABLED StepLimit
        \/ gw_calls = MaxCalls

\* the text of a response that carries tool requests is in no message
TextDropped ==
    \A i \in 1..Len(messages) : messages[i].content # Some(<<"thinking">>)

\* C27: a response that carries tool requests, with or without text, never
\* ends the run with a returned value in that iteration: after its requests
\* are processed the loop goes to the next iteration (another gateway call
\* or the step-limit failure), and its text is not appended to the store.
C27_ToolRequestsContinue ==
    /\ [][RequestsTakenUp /\ NextIteration]_vars
    /\ []LoopGoesOn
    /\ []TextDropped

\* a response with text and a tool request has been processed and the loop
\* is at its next iteration
C27_Witness ==
    /\ pc = "loop" /\ step = 1 /\ gw_log # <<>>
    /\ gw_log[Len(gw_log)].content = Some(<<"thinking">>)
    /\ LatestRequests # <<>>
    /\ Len(messages) >= 2
    /\ IsExchange(LastMessages(2), LatestRequests)

\* ---- C28

\* the trace steps a transition has added
NewSteps ==
    SubSeq(Get(current_run').steps, Len(Get(current_run).steps) + 1,
           Len(Get(current_run').steps))

\* processing a request records at least one tool step in the trace
AttemptTraced ==
    ToolStep =>
        \E i \in 1..Len(NewSteps) : NewSteps[i].step_type \in {"tool_call", "tool_result"}

\* C28: every tool invocation attempt of the loop, a request for an unknown
\* tool or with malformed JSON arguments included, in strict and non-strict
\* mode, leaves at least one step in the trace before control returns to
\* the loop.
C28_AttemptTraced == [][AttemptTraced]_vars

\* ---- C29

\* C29: whenever run has raised, the trace was ended with the error: its
\* end_time is set, its output is absent, and its error is the text made of
\* the raised error's kind name and message, not the error itself.
C29_RaisedErrorTraced ==
    (started /\ result.kind = "raised") =>
        /\ ~IsNone(current_run)
        /\ ~IsNone(Get(current_run).end_time)
        /\ IsNone(Get(current_run).output)
        /\ Get(current_run).error =
              Some(<<result.err.kind, ": ">> \o result.err.msg)
        /\ Get(current_run).error # Some(result.err)

\* a strict run has raised after a tool failure, with its trace ended
C29_Witness ==
    /\ started /\ strict /\ result.kind = "raised"
    /\ result.err.kind = "LLMError"
    /\ gw_log # <<>> /\ LatestRequests # <<>>
    /\ ~IsNone(current_run)
    /\ Head(Get(Get(current_run).error)) = "LLMError"

\* ---- C30

\* the trace steps of the given type
StepsOfType(types) ==
    SelectSeq(Get(current_run).steps, LAMBDA st : st.step_type \in types)

\* the number of tool requests the gateway has made in the current run
RECURSIVE Requested(_)
Requested(log) ==
    IF log = <<>> THEN 0 ELSE Len(Head(log).tool_calls) + Requested(Tail(log))

\* the trace in the slot is the trace of the latest run: its input, one
\* model-call step per gateway call of this run, tool steps of this run's
\* requests only, and no outcome before this run has one
SlotHoldsLatestRun ==
    started =>
        /\ ~IsNone(current_run)
        /\ Get(current_run).input = (IF runs = 1 THEN "hi" ELSE "again")
        /\ Len(StepsOfType({"llm_call"})) = Len(gw_log)
        /\ Len(StepsOfType({"tool_call", "tool_result"})) <= 3 * Requested(gw_log)
        /\ \A i \in 1..Len(Get(current_run).steps) :
              Get(current_run).steps[i].tool_name \in
                 {"", "unknown"}
                 \cup UNION {{gw_log[j].tool_calls[k].name :
                                k \in 1..Len(gw_log[j].tool_calls)} :
                             j \in 1..Len(gw_log)}
        /\ result.kind = "none" =>
              /\ IsNone(Get(current_run).end_time)
              /\ IsNone(Get(current_run).output)
              /\ IsNone(Get(current_run).error)

\* starting a run puts a new, empty trace with the run's input in the slot
SlotReplaced ==
    \A message \in Inputs \cup {"again"} :
        Run(message) => current_run' = Some(NewRun(message))

\* C30: starting a run replaces the trace slot: from then on the trace has
\* that run's input and only steps recorded during that run; no step,
\* output or error of an earlier run is retrievable.
C30_SlotReplaced == []SlotHoldsLatestRun /\ [][SlotReplaced]_vars

\* a second run has started after a first one that made gateway calls
C30_Witness ==
    /\ started /\ runs = 2 /\ pc = "loop"
    /\ gw_calls > 0 /\ gw_log = <<>>
    /\ current_run = Some(NewRun("again"))

\* ---- C31

\* C31: within one run the trace steps are in the order recorded, and each
\* step's timestamp is strictly greater than that of the step before it and
\* not smaller than the run's start_time.
C31_StrictlyTimeOrdered ==
    ~IsNone(current_run) =>
        \A i \in 1..Len(Get(current_run).steps) :
            /\ Get(current_run).steps[i].timestamp >= Get(current_run).start_time
            /\ i > 1 => Get(current_run).steps[i].timestamp
                           > Get(current_run).steps[i - 1].timestamp

\* ---- C32

\* run(message) leaves as history all that the store held, then the message
RunAppendsUserMessage ==
    \A message \in Inputs :
        Run(message) =>
            History' = Append(messages, Msg("user", Some(<<message>>), None, None))

\* before the first gateway call of a run the history ends with that run's
\* user message
FirstHistory ==
    (pc = "loop" /\ gw_log = <<>>) =>
        /\ History = messages
        /\ History # <<>>
        /\ History[Len(History)].role = "user"

\* C32: the store accumulates across runs: without retention limit and
\* without reset or clear, the history given to the first gateway call of a
\* run is every message left by the earlier runs, in order, followed by the
\* new user message.
C32_StoreAccumulates == []FirstHistory /\ [][RunAppendsUserMessage]_vars

\* a second run is about to make its first gateway call with the messages
\* of the first run before its user message
C32_Witness ==
    /\ runs = 2 /\ pc = "loop" /\ gw_log = <<>> /\ MoreSteps(step, max_steps)
    /\ Len(History) >= 3
    /\ History[1].role = "user"
    /\ History[2].role = "assistant"
    /\ History[Len(History)].role = "user"

\* ---- C33

\* C33: without retention limit the store is append-only under run: every
\* step of run leaves the earlier content as an unchanged prefix, also when
\* the run fails; only reset removes messages.
C33_AppendOnly ==
    [][IsPrefix(messages, messages') \/ (Reset /\ messages' = <<>>)]_vars

\* a strict run has failed at a tool request and the store still holds its
\* user message and the request
C33_Witness ==
    /\ strict /\ started /\ result.kind = "raised"
    /\ Len(messages) >= 2
    /\ messages[1].role = "user"
    /\ messages[Len(messages)].role = "assistant"

\* ---- C34

\* a gateway call records one model-call step and gets the whole store
GatewayCallLogged ==
    \A r \in GatewayOutcomes :
        LLMCall(r) =>
            /\ History = messages
            /\ Len(gw_log') = Len(gw_log) + 1
            /\ Len(Get(current_run').steps) = Len(Get(current_run).steps) + 1
            /\ Get(current_run').steps[Len(Get(current_run').steps)] =
                  Step("llm_call", "", None)

\* the trace has one model-call step per gateway call of the run
CallsCounted ==
    started => Len(StepsOfType({"llm_call"})) = Len(gw_log)

\* C34: every gateway call of a run is given the whole current history and
\* is recorded in the trace: the number of model-call steps equals the number
\* of gateway invocations of the run, a failing invocation included.
C34_GatewayCallsTraced == []CallsCounted /\ [][GatewayCallLogged]_vars

\* the second gateway call of a run has failed
C34_Witness ==
    /\ started /\ Len(gw_log) = 2 /\ gw_log[2].failed
    /\ Len(StepsOfType({"llm_call"})) = 2

\* ---- C35

\* a run is about to process a request for a tool that is not registered
AtUnknownTool == pc = "tools" /\ IsShape(Head(pending), TGhost)

\* no Tool's func is executed, and the store has grown by the assistant
\* message of the request and a tool message with the request's id and a
\* text naming the missing tool
NotFoundAppended ==
    /\ calls' = calls
    /\ Len(messages') = Len(messages) + 2
    /\ SubSeq(messages', 1, Len(messages)) = messages
    /\ messages'[Len(messages') - 1] = Msg("assistant", None, Some(<<Head(pending)>>), None)
    /\ messages'[Len(messages')] =
          Msg("tool", Some(<<"Tool '", Head(pending).name, "' not found">>), None,
              Some(Head(pending).id))

\* in strict mode the request makes run raise, and no Tool's func is executed
UnknownToolRaises ==
    /\ calls' = calls
    /\ result'.kind = "raised"
    /\ pc' = "idle"

\* C35 as stated: in non-strict mode the request executes no tool function,
\* a tool message naming the missing tool is appended, and the loop goes on
\* with the following requests and the next gateway call (there is a next
\* iteration); in strict mode run raises.
C35_AsStated ==
    [][AtUnknownTool =>
          IF strict THEN UnknownToolRaises
          ELSE /\ NotFoundAppended
               /\ result'.kind = "none"
               /\ pending' = Tail(pending)
               /\ MoreSteps(step + 1, max_steps)]_vars

\* C35 amended: in non-strict mode the request executes no tool function, a
\* tool message naming the missing tool is appended, and the loop goes on:
\* to the next request of the same response, else to the next iteration,
\* which makes the next gateway call unless max_steps iterations are used
\* up; in strict mode run raises.
C35_UnknownToolAbsorbed ==
    [][AtUnknownTool =>
          IF strict THEN UnknownToolRaises
          ELSE /\ NotFoundAppended
               /\ result'.kind = "none"
               /\ pending' = Tail(pending)
               /\ IF Len(pending) > 1
                  THEN pc' = "tools" /\ step' = step
                  ELSE pc' = "loop" /\ step' = step + 1]_vars

\* a non-strict run has answered a request for an unknown tool, executed the
\* request after it and made its next gateway call
C35_Witness ==
    /\ ~strict /\ pc = "loop" /\ Len(gw_log) = 2
    /\ Len(gw_log[1].tool_calls) = 2
    /\ IsShape(gw_log[1].tool_calls[1], TGhost)
    /\ IsShape(gw_log[1].tool_calls[2], TGood)
    /\ \E i \in 1..Len(messages) :
          messages[i].content = Some(<<"Tool '", "ghost", "' not found">>)
    /\ calls["add"] >= 1

\* ---- C36

\* a run makes at most max_steps gateway calls, none when max_steps <= 0
CallsBounded ==
    Len(gw_log) <= (IF max_steps > 0 THEN max_steps ELSE 0)

\* with max_steps <= 0 the run raises MaxStepsExceeded, the user message
\* being in the store
NoStepsAllowed ==
    (max_steps <= 0 /\ pc = "idle" /\ runs = 1) =>
        /\ result.kind = "raised"
        /\ result.err.kind = "MaxStepsExceeded"
        /\ messages = <<Msg("user", Some(<<"hi">>), None, None)>>

\* a run ends by returning a text or raising
RunEnds ==
    (pc # "idle") ~> (pc = "idle" /\ result.kind \in {"returned", "raised"})

\* C36: every run terminates, provided each gateway call and each tool call
\* terminates: it makes at most max_steps gateway calls (none when
\* max_steps <= 0, when it raises MaxStepsExceeded with the user message
\* appended) and ends by returning a text or raising.
C36_RunTerminates == []CallsBounded /\ []NoStepsAllowed /\ RunEnds

\* a run with a negative max_steps has raised without a gateway call
C36_Witness ==
    /\ max_steps < 0 /\ pc = "idle" /\ runs = 1 /\ gw_calls = 0
    /\ result.kind = "raised" /\ result.err.kind = "MaxStepsExceeded"
    /\ Len(messages) = 1

\* ---- C37

\* the number of steps of the given type that name the tool
StepsNaming(step_type, name) ==
    Len(SelectSeq(Get(current_run).steps,
                  LAMBDA st : st.step_type = step_type /\ st.tool_name = name))

\* C37: in the trace of a run, strict or non-strict, every tool-call step is
\* followed by exactly one tool-result step for the same tool before the
\* next tool-call or model-call step, and the tool-result steps naming a
\* tool are never more than the tool-call steps naming it.
C37_OneResultPerCall ==
    (started /\ ~IsNone(current_run)) =>
        LET st == Get(current_run).steps
        IN  /\ \A i \in 1..Len(st) :
                  st[i].step_type = "tool_call" =>
                      /\ i < Len(st)
                      /\ st[i + 1].step_type = "tool_result"
                      /\ st[i + 1].tool_name = st[i].tool_name
                      /\ i + 2 <= Len(st) => st[i + 2].step_type # "tool_result"
            /\ \A name \in ToolNames \cup {"ghost"} :
                  StepsNaming("tool_result", name) <= StepsNaming("tool_call", name)

\* ---- C38

\* a response without tool requests and without non-empty text
IsEmptyResponse(r) ==
    ~r.failed /\ r.tool_calls = <<>> /\ r.content \in {None, Some(<<>>)}

\* such a response leaves the store unchanged, does not end the run and
\* uses up one iteration
EmptyResponseSkipped ==
    \A r \in GatewayOutcomes :
        (IsEmptyResponse(r) /\ LLMCall(r)) =>
            /\ messages' = messages
            /\ result'.kind = "none"
            /\ pc' = "loop"
            /\ step' = step + 1

\* every answer of the gateway in the current run was such a response
OnlyEmptyResponses == \A i \in 1..Len(gw_log) : IsEmptyResponse(gw_log[i])

\* with such responses only, the run ends by MaxStepsExceeded after
\* max_steps gateway calls, its user message being the last of the store
EmptyResponsesExhaust ==
    (started /\ Ended /\ OnlyEmptyResponses) =>
        /\ result.kind = "raised"
        /\ result.err.kind = "MaxStepsExceeded"
        /\ Len(gw_log) = max_steps
        /\ messages[Len(messages)] = Msg("user", Some(<<"hi">>), None, None)

\* C38: a response with neither tool requests nor non-empty text leaves the
\* store unchanged, does not end the run and uses up one of the max_steps
\* iterations; a gateway that only returns such responses makes run raise
\* MaxStepsExceeded after max_steps gateway calls, the store holding the
\* earlier content and the user message.
C38_EmptyResponse == []EmptyResponsesExhaust /\ [][EmptyResponseSkipped]_vars

\* a run has been answered with no content and with an empty text and has
\* raised at the step limit
C38_Witness ==
    /\ started /\ Ended /\ max_steps = 2 /\ Len(gw_log) = 2
    /\ gw_log[1].content = None /\ gw_log[2].content = Some(<<>>)
    /\ OnlyEmptyResponses
    /\ result.kind = "raised"

\* ---- C39

\* C39: the current trace never has both output and error set, and has
\* end_time set whenever it has either; the trace of a run that returned has
\* no error and that of a run that raised has no output, also when end_run
\* is called twice for the step-limit failure.
C39_OutputXorError ==
    ~IsNone(current_run) =>
        /\ IsNone(Get(current_run).output) \/ IsNone(Get(current_run).error)
        /\ (~IsNone(Get(current_run).output) \/ ~IsNone(Get(current_run).error))
              => ~IsNone(Get(current_run).end_time)
        /\ (started /\ result.kind = "returned") => IsNone(Get(current_run).error)
        /\ (started /\ result.kind = "raised") => IsNone(Get(current_run).output)

\* a run has raised at the step limit, where end_run is called by the loop
\* and again by the handler of run
C39_Witness ==
    /\ started /\ result.kind = "raised" /\ result.err.kind = "MaxStepsExceeded"
    /\ ~IsNone(current_run)
    /\ IsNone(Get(current_run).output)
    /\ ~IsNone(Get(current_run).error)
    /\ ~IsNone(Get(current_run).end_time)

====
